---- MODULE Spec2Model ----
(***************************************************************************)
(* A model of the MCP Chrome Connector: the SecurityValidator (pure        *)
(* validators over strings) and the BrowserManager (browser handle,       *)
(* session map, asynchronous operations with their suspension points).    *)
(*                                                                         *)
(* Strings are sequences of one-character strings, so that substring and  *)
(* regular-expression tests are computed the way the code computes them.  *)
(***************************************************************************)
EXTENDS Integers, Sequences, FiniteSets, TLC

VARIABLES
  config,     \* SecurityValidator.config (a SecurityConfig)
  arg,        \* the argument(s) of the validator call under check
  result,     \* the value the validator call returned
  returned,   \* whether the validator call has returned
  browser,    \* BrowserManager.browser: 0 is null, else the browser process
  sessions,   \* BrowserManager.sessions: the Map's entries in insertion order
  generated,  \* how many identifiers generateSessionId has produced
  calls,      \* the calls of BrowserManager methods and where each stands
  browsers,   \* the browser processes launched: "open", "closing" or "closed"
  contexts,   \* the browsing contexts created: [browser, open]
  pages,      \* the pages created: [context, url]
  now         \* the clock new Date() reads

validatorVars == <<config, arg, result, returned>>
managerVars == <<browser, sessions, generated, calls, browsers, contexts, pages, now>>
vars == <<config, arg, result, returned,
          browser, sessions, generated, calls, browsers, contexts, pages, now>>

----------------------------------------------------------------------------
(* Strings *)

UpperChars == <<"A", "B", "C", "D", "E", "F", "G", "H", "I", "J", "K", "L", "M", "N", "O", "P", "Q", "R", "S", "T", "U", "V", "W", "X", "Y", "Z">>
LowerChars == <<"a", "b", "c", "d", "e", "f", "g", "h", "i", "j", "k", "l", "m", "n", "o", "p", "q", "r", "s", "t", "u", "v", "w", "x", "y", "z">>
DigitChars == <<"0", "1", "2", "3", "4", "5", "6", "7", "8", "9">>

Range(s) == {s[i] : i \in 1..Len(s)}

UpperSet == Range(UpperChars)
LowerSet == Range(LowerChars)
DigitSet == Range(DigitChars)

\* \s of a JavaScript regular expression (the members the inputs use)
SpaceSet == {" ", "\t", "\n"}

\* \w of a JavaScript regular expression
WordSet == UpperSet \cup LowerSet \cup DigitSet \cup {"_"}

ToLowerChar(c) ==
  IF c \in UpperSet
  THEN LowerChars[CHOOSE i \in 1..Len(UpperChars) : UpperChars[i] = c]
  ELSE c

\* String.prototype.toLowerCase
toLowerCase(s) == [i \in 1..Len(s) |-> ToLowerChar(s[i])]

\* pat occurs in s at index i
MatchAt(s, i, pat) ==
  /\ i + Len(pat) - 1 <= Len(s)
  /\ \A k \in 1..Len(pat) : s[i + k - 1] = pat[k]

\* pat (lower case) occurs in s at index i, letter case ignored (the i flag)
MatchAtI(s, i, pat) ==
  /\ i + Len(pat) - 1 <= Len(s)
  /\ \A k \in 1..Len(pat) : ToLowerChar(s[i + k - 1]) = pat[k]

\* String.prototype.includes
includes(s, pat) == \E i \in 1..(Len(s) - Len(pat) + 1) : MatchAt(s, i, pat)

\* /pat/i.test(s) for a literal pattern
TestI(s, pat) == \E i \in 1..(Len(s) - Len(pat) + 1) : MatchAtI(s, i, pat)

\* the index of the first character of s from index i on that is not in cs
\* (Len(s) + 1 when there is none)
SkipWhile(s, i, cs) ==
  IF \E j \in i..Len(s) : s[j] \notin cs
  THEN CHOOSE j \in i..Len(s) : s[j] \notin cs /\ \A k \in i..(j - 1) : s[k] \in cs
  ELSE Len(s) + 1

\* the index of the first character of s that is in cs (Len(s) + 1 when none)
FirstOf(s, cs) == SkipWhile(s, 1, Range(s) \ cs)

\* the index of the last character of s that is c (0 when there is none)
LastIndexOf(s, c) ==
  IF \E j \in 1..Len(s) : s[j] = c
  THEN CHOOSE j \in 1..Len(s) : s[j] = c /\ \A k \in (j + 1)..Len(s) : s[k] # c
  ELSE 0

Tail2(s, i) == SubSeq(s, i, Len(s))

----------------------------------------------------------------------------
(* new URL(url): the WHATWG URL parser for the URLs the inputs range over  *)
(* (no base URL, no IPv4/IPv6 literals, no percent-encoding or IDNA).      *)

SpecialSchemes == {<<"h", "t", "t", "p">>, <<"h", "t", "t", "p", "s">>, <<"f", "t", "p">>, <<"w", "s">>, <<"w", "s", "s">>}

SchemeCharSet == UpperSet \cup LowerSet \cup DigitSet \cup {"+", "-", "."}

ForbiddenHostSet == {" ", "#", "/", ":", "<", ">", "?", "@", "[", "\\", "]", "^", "|", "%"}

InvalidUrl == [ok |-> FALSE, protocol |-> <<>>, hostname |-> <<>>, port |-> <<>>]

\* the authority of a URL whose text after the scheme and the slashes is s
Authority(s) == SubSeq(s, 1, FirstOf(s, {"/", "\\", "?", "#"}) - 1)

HostPort(authority) == Tail2(authority, LastIndexOf(authority, "@") + 1)

HostOf(hostport) ==
  LET c == LastIndexOf(hostport, ":")
  IN IF c = 0 THEN hostport ELSE SubSeq(hostport, 1, c - 1)

PortOf(hostport) ==
  LET c == LastIndexOf(hostport, ":")
  IN IF c = 0 THEN <<>> ELSE Tail2(hostport, c + 1)

DefaultPort(scheme) ==
  IF scheme \in {<<"h", "t", "t", "p">>, <<"w", "s">>} THEN <<"8", "0">>
  ELSE IF scheme \in {<<"h", "t", "t", "p", "s">>, <<"w", "s", "s">>} THEN <<"4", "4", "3">>
  ELSE IF scheme = <<"f", "t", "p">> THEN <<"2", "1">>
  ELSE <<>>

ParseSpecial(scheme, rest) ==
  LET authority == Authority(Tail2(rest, SkipWhile(rest, 1, {"/", "\\"})))
      hostport  == HostPort(authority)
      host      == HostOf(hostport)
  IN IF \/ host = <<>>
        \/ Range(host) \cap ForbiddenHostSet # {}
        \/ ~(Range(PortOf(hostport)) \subseteq DigitSet)
     THEN InvalidUrl
     ELSE [ok |-> TRUE, protocol |-> scheme \o <<":">>, hostname |-> toLowerCase(host),
           port |-> IF PortOf(hostport) = DefaultPort(scheme) THEN <<>>
                    ELSE PortOf(hostport)]

ParseFile(scheme, rest) ==
  LET host == IF MatchAt(rest, 1, <<"/", "/">>)
              THEN toLowerCase(Authority(Tail2(rest, 3)))
              ELSE <<>>
  IN IF Range(host) \cap ForbiddenHostSet # {}
     THEN InvalidUrl
     ELSE [ok |-> TRUE, protocol |-> scheme \o <<":">>,
           hostname |-> IF host = <<"l", "o", "c", "a", "l", "h", "o", "s", "t">> THEN <<>> ELSE host, port |-> <<>>]

ParseOpaque(scheme, rest) ==
  LET hostport == IF MatchAt(rest, 1, <<"/", "/">>)
                  THEN HostPort(Authority(Tail2(rest, 3)))
                  ELSE <<>>
  IN IF ~(Range(PortOf(hostport)) \subseteq DigitSet)
     THEN InvalidUrl
     ELSE [ok |-> TRUE, protocol |-> scheme \o <<":">>, hostname |-> HostOf(hostport),
           port |-> PortOf(hostport)]

ParseUrl(url) ==
  LET colon == FirstOf(url, {":"})
  IN IF \/ colon > Len(url)
        \/ colon = 1
        \/ url[1] \notin UpperSet \cup LowerSet
        \/ ~(Range(SubSeq(url, 1, colon - 1)) \subseteq SchemeCharSet)
     THEN InvalidUrl
     ELSE LET scheme == toLowerCase(SubSeq(url, 1, colon - 1))
              rest   == Tail2(url, colon + 1)
          IN IF scheme \in SpecialSchemes THEN ParseSpecial(scheme, rest)
             ELSE IF scheme = <<"f", "i", "l", "e">> THEN ParseFile(scheme, rest)
             ELSE ParseOpaque(scheme, rest)

----------------------------------------------------------------------------
(* SecurityConfig.  An optional field is [defined, ...]: `undefined` in    *)
(* the code is defined = FALSE.                                            *)

DefaultMaxExecutionTime == 30000
DefaultMaxMemoryUsage == 512

NoList == [defined |-> FALSE, list |-> <<>>]
List(l) == [defined |-> TRUE, list |-> l]
NoNumber == [defined |-> FALSE, value |-> 0]
Number(n) == [defined |-> TRUE, value |-> n]

defaultSecurityConfig ==
  [allowedDomains   |-> List(<<>>),
   blockedDomains   |-> List(<<<<"l", "o", "c", "a", "l", "h", "o", "s", "t">>, <<"1", "2", "7", ".", "0", ".", "0", ".", "1">>, <<"0", ".", "0", ".", "0", ".", "0">>,
                               <<"f", "i", "l", "e", ":", "/", "/">>, <<"f", "t", "p", ":", "/", "/">>>>),
   maxExecutionTime |-> Number(DefaultMaxExecutionTime),
   maxMemoryUsage   |-> Number(DefaultMaxMemoryUsage),
   enableSandbox    |-> TRUE]

Valid == [valid |-> TRUE, error |-> <<>>]
Invalid(message) == [valid |-> FALSE, error |-> message]

----------------------------------------------------------------------------
(* SecurityValidator.validateUrl *)

IsBlocked(cfg, hostname) ==
  /\ cfg.blockedDomains.defined
  /\ \E i \in 1..Len(cfg.blockedDomains.list) :
        includes(hostname, cfg.blockedDomains.list[i])

IsNotAllowed(cfg, hostname) ==
  /\ cfg.allowedDomains.defined
  /\ Len(cfg.allowedDomains.list) > 0
  /\ ~\E i \in 1..Len(cfg.allowedDomains.list) :
        includes(hostname, cfg.allowedDomains.list[i])

allowedProtocols == {<<"h", "t", "t", "p", ":">>, <<"h", "t", "t", "p", "s", ":">>}

BlockedError(hostname) == <<"D", "o", "m", "a", "i", "n", " ">> \o hostname \o <<" ", "i", "s", " ", "b", "l", "o", "c", "k", "e", "d">>
NotAllowedError(hostname) == <<"D", "o", "m", "a", "i", "n", " ">> \o hostname \o <<" ", "i", "s", " ", "n", "o", "t", " ", "i", "n", " ", "a", "l", "l", "o", "w", "e", "d", " ", "l", "i", "s", "t">>
ProtocolError(protocol) == <<"P", "r", "o", "t", "o", "c", "o", "l", " ">> \o protocol \o <<" ", "i", "s", " ", "n", "o", "t", " ", "a", "l", "l", "o", "w", "e", "d">>
UrlFormatError == <<"I", "n", "v", "a", "l", "i", "d", " ", "U", "R", "L", " ", "f", "o", "r", "m", "a", "t", ":", " ", "T", "y", "p", "e", "E", "r", "r", "o", "r", ":", " ", "I", "n", "v", "a", "l", "i", "d", " ", "U", "R", "L">>

\* the mutant of validateUrl that consults the allow-list before the block-list
validateUrlAllowFirst(cfg, url) ==
  LET urlObj == ParseUrl(url)
  IN IF ~urlObj.ok THEN Invalid(UrlFormatError)
     ELSE IF IsNotAllowed(cfg, urlObj.hostname)
          THEN Invalid(NotAllowedError(urlObj.hostname))
     ELSE IF IsBlocked(cfg, urlObj.hostname)
          THEN Invalid(BlockedError(urlObj.hostname))
     ELSE IF urlObj.protocol \notin allowedProtocols
          THEN Invalid(ProtocolError(urlObj.protocol))
     ELSE Valid

\* the mutant of validateUrl without the protocol check
validateUrlAnyProtocol(cfg, url) ==
  LET urlObj == ParseUrl(url)
  IN IF ~urlObj.ok THEN Invalid(UrlFormatError)
     ELSE IF IsBlocked(cfg, urlObj.hostname)
          THEN Invalid(BlockedError(urlObj.hostname))
     ELSE IF IsNotAllowed(cfg, urlObj.hostname)
          THEN Invalid(NotAllowedError(urlObj.hostname))
     ELSE Valid

\* the mutant of validateUrl whose allow-list test is an equality
validateUrlAllowExact(cfg, url) ==
  LET urlObj == ParseUrl(url)
  IN IF ~urlObj.ok THEN Invalid(UrlFormatError)
     ELSE IF IsBlocked(cfg, urlObj.hostname)
          THEN Invalid(BlockedError(urlObj.hostname))
     ELSE IF /\ cfg.allowedDomains.defined
             /\ Len(cfg.allowedDomains.list) > 0
             /\ ~\E i \in 1..Len(cfg.allowedDomains.list) :
                   urlObj.hostname = cfg.allowedDomains.list[i]
          THEN Invalid(NotAllowedError(urlObj.hostname))
     ELSE IF urlObj.protocol \notin allowedProtocols
          THEN Invalid(ProtocolError(urlObj.protocol))
     ELSE Valid

validateUrl(cfg, url) ==
  LET urlObj == ParseUrl(url)
  IN IF ~urlObj.ok THEN Invalid(UrlFormatError)
     ELSE IF IsBlocked(cfg, urlObj.hostname)
          THEN Invalid(BlockedError(urlObj.hostname))
     ELSE IF IsNotAllowed(cfg, urlObj.hostname)
          THEN Invalid(NotAllowedError(urlObj.hostname))
     ELSE IF urlObj.protocol \notin allowedProtocols
          THEN Invalid(ProtocolError(urlObj.protocol))
     ELSE Valid

----------------------------------------------------------------------------
(* The BrowserManager as constructed: no browser, no session, no call *)

MaxCalls == 2

NoCall ==
  [op |-> "none", pc |-> "idle", sessionId |-> <<>>, url |-> <<>>, selector |-> <<>>,
   script |-> <<>>, action |-> <<>>, value |-> <<>>,
   id |-> <<>>, b |-> 0, context |-> 0, page |-> 0, session |-> 0, pos |-> 0,
   seen |-> <<>>, ret |-> "none", error |-> <<>>, startTime |-> 0, duration |-> 0]

ManagerIdle ==
  /\ browser = 0
  /\ sessions = <<>>
  /\ generated = 0
  /\ calls = [c \in 1..MaxCalls |-> NoCall]
  /\ browsers = <<>>
  /\ contexts = <<>>
  /\ pages = <<>>
  /\ now = 0

----------------------------------------------------------------------------
(* The URLs and the configurations validateUrl is checked on *)

MaxLabels == 2

HostLabels == {<<"l", "o", "c", "a", "l", "h", "o", "s", "t">>, <<"b", "a", "d">>, <<"B", "a", "d">>, <<"g", "o", "o", "d">>, <<"c", "o", "m">>}

RECURSIVE HostNames(_)
HostNames(n) ==
  IF n = 0 THEN {<<>>}
  ELSE HostNames(n - 1) \cup HostLabels
       \cup {h \o <<".">> \o l : h \in HostNames(n - 1) \ {<<>>}, l \in HostLabels}

UrlSchemes == {<<"h", "t", "t", "p", ":", "/", "/">>, <<"h", "t", "t", "p", "s", ":", "/", "/">>, <<"H", "T", "T", "P", ":", "/", "/">>, <<"f", "t", "p", ":", "/", "/">>, <<"f", "i", "l", "e", ":", "/", "/">>,
               <<"j", "a", "v", "a", "s", "c", "r", "i", "p", "t", ":">>, <<>>}
UrlUserInfos == {<<>>, <<"g", "o", "o", "d", "@">>}
UrlPorts == {<<>>, <<":", "9", "9", "9", "9">>}
UrlPaths == {<<>>, <<"/", "x">>}

Urls ==
  {s \o u \o h \o p \o q :
     s \in UrlSchemes, u \in UrlUserInfos, h \in HostNames(MaxLabels),
     p \in UrlPorts, q \in UrlPaths}

UrlConfigs ==
  {[defaultSecurityConfig EXCEPT !.blockedDomains = b, !.allowedDomains = a] :
     b \in {NoList, List(<<>>), defaultSecurityConfig.blockedDomains,
            List(<<<<"b", "a", "d">>>>)},
     a \in {NoList, List(<<>>), List(<<<<"g", "o", "o", "d">>>>), List(<<<<"g", "o", "o", "d">>, <<"c", "o", "m">>>>)}}

InitUrl ==
  /\ config \in UrlConfigs
  /\ arg \in Urls
  /\ result = Valid
  /\ returned = FALSE
  /\ ManagerIdle

ValidateUrl ==
  /\ ~returned
  /\ result' = validateUrl(config, arg)
  /\ returned' = TRUE
  /\ UNCHANGED <<config, arg>>
  /\ UNCHANGED managerVars

NextUrl == ValidateUrl

SpecUrl == InitUrl /\ [][NextUrl]_vars

\* C1: for every configuration and every parseable URL whose hostname contains a
\* configured blocked-domain substring, validateUrl returns invalid with the error
\* that the domain is blocked, whatever the allow-list holds; under the default
\* policy http://localhost:9999/x is rejected with an error containing "blocked".
C1_BlockedTakesPrecedence ==
  returned =>
    LET urlObj == ParseUrl(arg)
    IN /\ ( /\ urlObj.ok
            /\ config.blockedDomains.defined
            /\ \E i \in 1..Len(config.blockedDomains.list) :
                  includes(urlObj.hostname, config.blockedDomains.list[i]) )
          => /\ ~result.valid
             /\ result.error = <<"D", "o", "m", "a", "i", "n", " ">> \o urlObj.hostname \o <<" ", "i", "s", " ", "b", "l", "o", "c", "k", "e", "d">>
       /\ (config = defaultSecurityConfig /\ arg = <<"h", "t", "t", "p", ":", "/", "/", "l", "o", "c", "a", "l", "h", "o", "s", "t", ":", "9", "9", "9", "9", "/", "x">>)
          => (~result.valid /\ includes(result.error, <<"b", "l", "o", "c", "k", "e", "d">>))

\* a blocked hostname that the allow-list would admit has been rejected as blocked
C1_Witness ==
  /\ returned
  /\ config.blockedDomains = List(<<<<"b", "a", "d">>>>)
  /\ config.allowedDomains = List(<<<<"g", "o", "o", "d">>>>)
  /\ arg = <<"h", "t", "t", "p", ":", "/", "/", "b", "a", "d", ".", "g", "o", "o", "d", ":", "9", "9", "9", "9", "/", "x">>
  /\ result = Invalid(<<"D", "o", "m", "a", "i", "n", " ", "b", "a", "d", ".", "g", "o", "o", "d", " ", "i", "s", " ", "b", "l", "o", "c", "k", "e", "d">>)

\* C2: for every configuration, a URL whose scheme is not http or https is
\* rejected; only http and https URLs are ever accepted.
C2_OnlyHttpAccepted ==
  returned =>
    LET urlObj == ParseUrl(arg)
    IN result.valid => (urlObj.ok /\ urlObj.protocol \in {<<"h", "t", "t", "p", ":">>, <<"h", "t", "t", "p", "s", ":">>})

\* an ftp URL with an allow-listed, unblocked hostname has been rejected
C2_Witness ==
  /\ returned
  /\ config.allowedDomains = List(<<<<"g", "o", "o", "d">>>>)
  /\ arg = <<"f", "t", "p", ":", "/", "/", "g", "o", "o", "d", ".", "c", "o", "m", "/", "x">>
  /\ result = Invalid(<<"P", "r", "o", "t", "o", "c", "o", "l", " ", "f", "t", "p", ":", " ", "i", "s", " ", "n", "o", "t", " ", "a", "l", "l", "o", "w", "e", "d">>)

HostAllowedAndNotBlocked(cfg, urlObj) ==
  /\ urlObj.ok
  /\ \E i \in 1..Len(cfg.allowedDomains.list) :
        includes(urlObj.hostname, cfg.allowedDomains.list[i])
  /\ ~( /\ cfg.blockedDomains.defined
        /\ \E i \in 1..Len(cfg.blockedDomains.list) :
              includes(urlObj.hostname, cfg.blockedDomains.list[i]) )

AllowListNonEmpty(cfg) ==
  cfg.allowedDomains.defined /\ Len(cfg.allowedDomains.list) > 0

\* C3 (as stated): with a non-empty allow-list, validateUrl accepts a URL if and
\* only if its hostname contains an allow-listed substring and no blocked one.
C3_Original ==
  (returned /\ AllowListNonEmpty(config)) =>
    (result.valid <=> HostAllowedAndNotBlocked(config, ParseUrl(arg)))

\* C3 (amended): with a non-empty allow-list, validateUrl accepts a URL if and
\* only if its hostname contains an allow-listed substring and no blocked one
\* and its scheme is http or https.
C3_Amended ==
  (returned /\ AllowListNonEmpty(config)) =>
    (result.valid <=>
       /\ HostAllowedAndNotBlocked(config, ParseUrl(arg))
       /\ ParseUrl(arg).protocol \in {<<"h", "t", "t", "p", ":">>, <<"h", "t", "t", "p", "s", ":">>})

\* with a non-empty allow-list, a URL whose hostname only contains (and does not
\* equal) an allow-listed entry has been accepted
C3_Witness ==
  /\ returned
  /\ config.allowedDomains = List(<<<<"g", "o", "o", "d">>, <<"c", "o", "m">>>>)
  /\ arg = <<"h", "t", "t", "p", "s", ":", "/", "/", "g", "o", "o", "d", "@", "g", "o", "o", "d", ".", "b", "a", "d", ":", "9", "9", "9", "9">>
  /\ config.blockedDomains = defaultSecurityConfig.blockedDomains
  /\ result.valid

----------------------------------------------------------------------------
(* Joi.string() schemas: the empty string is rejected unless allow('') is  *)
(* stated, then the rules apply in the order written (abortEarly).         *)

MaxSelectorLength == 1000
MaxScriptLength == 10000
MaxInputTextLength == 10000

JoiOk == <<>>
JoiEmptyError == <<"\"", "v", "a", "l", "u", "e", "\"", " ", "i", "s", " ", "n", "o", "t", " ", "a", "l", "l", "o", "w", "e", "d", " ", "t", "o", " ", "b", "e", " ", "e", "m", "p", "t", "y">>
JoiMaxError == <<"\"", "v", "a", "l", "u", "e", "\"", " ", "l", "e", "n", "g", "t", "h", " ", "m", "u", "s", "t", " ", "b", "e", " ", "l", "e", "s", "s", " ", "t", "h", "a", "n", " ", "o", "r", " ", "e", "q", "u", "a", "l", " ", "t", "o", " ", "t", "h", "e", " ", "l", "i", "m", "i", "t">>
JoiPatternError(s) ==
  <<"\"", "v", "a", "l", "u", "e", "\"", " ", "w", "i", "t", "h", " ", "v", "a", "l", "u", "e", " ", "\"">> \o s \o <<"\"", " ", "f", "a", "i", "l", "s", " ", "t", "o", " ", "m", "a", "t", "c", "h", " ", "t", "h", "e", " ", "r", "e", "q", "u", "i", "r", "e", "d", " ", "p", "a", "t", "t", "e", "r", "n">>

\* Joi.string().max(max).required(), with .allow('') when allowEmpty
JoiString(s, max, allowEmpty) ==
  IF s = <<>> THEN (IF allowEmpty THEN JoiOk ELSE JoiEmptyError)
  ELSE IF Len(s) > max THEN JoiMaxError
  ELSE JoiOk

----------------------------------------------------------------------------
(* SecurityValidator.validateSelector *)

\* the characters of /^[a-zA-Z0-9\s\-_\[\]='".:>#,\(\)]+$/
SelectorCharSet ==
  UpperSet \cup LowerSet \cup DigitSet \cup SpaceSet
  \cup {"-", "_", "[", "]", "=", "'", "\"", ".", ":", ">", "#", ",", "(", ")"}

\* the (literal, case-insensitive) dangerousPatterns of validateSelector
selectorDangerousPatterns ==
  <<<<"j", "a", "v", "a", "s", "c", "r", "i", "p", "t", ":">>, <<"e", "x", "p", "r", "e", "s", "s", "i", "o", "n", "(">>, <<"s", "c", "r", "i", "p", "t", ":">>, <<"v", "b", "s", "c", "r", "i", "p", "t", ":">>, <<"o", "n", "l", "o", "a", "d", "=">>,
    <<"o", "n", "e", "r", "r", "o", "r", "=">>>>

validateSelector(selector) ==
  LET joi == JoiString(selector, MaxSelectorLength, FALSE)
  IN IF joi # JoiOk THEN Invalid(<<"I", "n", "v", "a", "l", "i", "d", " ", "s", "e", "l", "e", "c", "t", "o", "r", ":", " ">> \o joi)
     ELSE IF ~(Range(selector) \subseteq SelectorCharSet)
          THEN Invalid(<<"I", "n", "v", "a", "l", "i", "d", " ", "s", "e", "l", "e", "c", "t", "o", "r", ":", " ">> \o JoiPatternError(selector))
     ELSE IF \E p \in 1..Len(selectorDangerousPatterns) :
                TestI(selector, selectorDangerousPatterns[p])
          THEN Invalid(<<"S", "e", "l", "e", "c", "t", "o", "r", " ", "c", "o", "n", "t", "a", "i", "n", "s", " ", "p", "o", "t", "e", "n", "t", "i", "a", "l", "l", "y", " ", "d", "a", "n", "g", "e", "r", "o", "u", "s", " ", "c", "o", "n", "t", "e", "n", "t">>)
     ELSE Valid

----------------------------------------------------------------------------
(* SecurityValidator.validateScript *)

\* /kw\s*tail/i.test(s): the keyword, any whitespace, then the tail
TestKeyword(s, kw, tail) ==
  \E i \in 1..(Len(s) - Len(kw) + 1) :
     /\ MatchAtI(s, i, kw)
     /\ MatchAt(s, SkipWhile(s, i + Len(kw), SpaceSet), tail)

\* the mutant of TestKeyword that allows no whitespace before the tail
TestKeywordNoSpace(s, kw, tail) ==
  \E i \in 1..(Len(s) - Len(kw) + 1) :
     /\ MatchAtI(s, i, kw)
     /\ MatchAt(s, i + Len(kw), tail)

\* the dangerousPatterns of validateScript, each keyword in lower case
scriptDangerousPatterns ==
  << [kw |-> <<"e", "v", "a", "l">>,            tail |-> <<"(">>],
     [kw |-> <<"f", "u", "n", "c", "t", "i", "o", "n">>,        tail |-> <<"(">>],
     [kw |-> <<"s", "e", "t", "t", "i", "m", "e", "o", "u", "t">>,      tail |-> <<"(">>],
     [kw |-> <<"s", "e", "t", "i", "n", "t", "e", "r", "v", "a", "l">>,     tail |-> <<"(">>],
     [kw |-> <<"d", "o", "c", "u", "m", "e", "n", "t", ".", "w", "r", "i", "t", "e">>,  tail |-> <<>>],
     [kw |-> <<"i", "n", "n", "e", "r", "h", "t", "m", "l">>,       tail |-> <<"=">>],
     [kw |-> <<"o", "u", "t", "e", "r", "h", "t", "m", "l">>,       tail |-> <<"=">>],
     [kw |-> <<"l", "o", "c", "a", "t", "i", "o", "n">>,        tail |-> <<"=">>],
     [kw |-> <<"w", "i", "n", "d", "o", "w">>,          tail |-> <<".">>],
     [kw |-> <<"d", "o", "c", "u", "m", "e", "n", "t", ".", "c", "o", "o", "k", "i", "e">>, tail |-> <<>>],
     [kw |-> <<"l", "o", "c", "a", "l", "s", "t", "o", "r", "a", "g", "e">>,    tail |-> <<>>],
     [kw |-> <<"s", "e", "s", "s", "i", "o", "n", "s", "t", "o", "r", "a", "g", "e">>,  tail |-> <<>>] >>

\* the mutant of validateScript whose patterns allow no whitespace
validateScriptNoSpace(script) ==
  LET joi == JoiString(script, MaxScriptLength, FALSE)
  IN IF joi # JoiOk THEN Invalid(<<"I", "n", "v", "a", "l", "i", "d", " ", "s", "c", "r", "i", "p", "t", ":", " ">> \o joi)
     ELSE IF \E p \in 1..Len(scriptDangerousPatterns) :
                TestKeywordNoSpace(script, scriptDangerousPatterns[p].kw,
                                   scriptDangerousPatterns[p].tail)
          THEN Invalid(<<"S", "c", "r", "i", "p", "t", " ", "c", "o", "n", "t", "a", "i", "n", "s", " ", "p", "o", "t", "e", "n", "t", "i", "a", "l", "l", "y", " ", "d", "a", "n", "g", "e", "r", "o", "u", "s", " ", "o", "p", "e", "r", "a", "t", "i", "o", "n", "s">>)
     ELSE Valid

validateScript(script) ==
  LET joi == JoiString(script, MaxScriptLength, FALSE)
  IN IF joi # JoiOk THEN Invalid(<<"I", "n", "v", "a", "l", "i", "d", " ", "s", "c", "r", "i", "p", "t", ":", " ">> \o joi)
     ELSE IF \E p \in 1..Len(scriptDangerousPatterns) :
                TestKeyword(script, scriptDangerousPatterns[p].kw,
                            scriptDangerousPatterns[p].tail)
          THEN Invalid(<<"S", "c", "r", "i", "p", "t", " ", "c", "o", "n", "t", "a", "i", "n", "s", " ", "p", "o", "t", "e", "n", "t", "i", "a", "l", "l", "y", " ", "d", "a", "n", "g", "e", "r", "o", "u", "s", " ", "o", "p", "e", "r", "a", "t", "i", "o", "n", "s">>)
     ELSE Valid

----------------------------------------------------------------------------
(* SecurityValidator.validateInputText *)

validateInputText(text) ==
  LET joi == JoiString(text, MaxInputTextLength, TRUE)
  IN IF joi # JoiOk THEN Invalid(<<"I", "n", "v", "a", "l", "i", "d", " ", "i", "n", "p", "u", "t", " ", "t", "e", "x", "t", ":", " ">> \o joi) ELSE Valid

----------------------------------------------------------------------------
(* SecurityValidator.sanitizeString *)

\* s.replace(/[cs]/g, '')
RemoveChars(s, cs) == SelectSeq(s, LAMBDA c : c \notin cs)

\* s.replace(/pat/gi, '') from index i on: one left-to-right pass
RECURSIVE RemoveLiteralI(_, _, _)
RemoveLiteralI(s, i, pat) ==
  IF i > Len(s) THEN <<>>
  ELSE IF MatchAtI(s, i, pat) THEN RemoveLiteralI(s, i + Len(pat), pat)
  ELSE <<s[i]>> \o RemoveLiteralI(s, i + 1, pat)

\* the index after the match of /on\w+\s*=/i at index i of s, 0 when none
HandlerEnd(s, i) ==
  IF ~MatchAtI(s, i, <<"o", "n">>) THEN 0
  ELSE LET w == SkipWhile(s, i + 2, WordSet)
           e == SkipWhile(s, w, SpaceSet)
       IN IF w > i + 2 /\ e <= Len(s) /\ s[e] = "=" THEN e + 1 ELSE 0

\* s.replace(/on\w+\s*=/gi, '') from index i on: one left-to-right pass
RECURSIVE RemoveHandlers(_, _)
RemoveHandlers(s, i) ==
  IF i > Len(s) THEN <<>>
  ELSE IF HandlerEnd(s, i) # 0 THEN RemoveHandlers(s, HandlerEnd(s, i))
  ELSE <<s[i]>> \o RemoveHandlers(s, i + 1)

\* String.prototype.trim
trim(s) ==
  LET first == SkipWhile(s, 1, SpaceSet)
  IN IF first > Len(s) THEN <<>>
     ELSE SubSeq(s, first,
                 CHOOSE j \in first..Len(s) :
                    s[j] \notin SpaceSet /\ \A k \in (j + 1)..Len(s) : s[k] \in SpaceSet)

sanitizeString(input) ==
  trim(RemoveHandlers(RemoveLiteralI(RemoveChars(input, {"<", ">"}), 1,
                                     <<"j", "a", "v", "a", "s", "c", "r", "i", "p", "t", ":">>), 1))

----------------------------------------------------------------------------
(* SecurityValidator.checkLimits.  `x && ...` in the code is false for     *)
(* undefined and for 0.                                                    *)

Truthy(n) == n.defined /\ n.value # 0

TimeLimitError(operation, limit) ==
  <<"O", "p", "e", "r", "a", "t", "i", "o", "n", " ">> \o operation \o <<" ", "e", "x", "c", "e", "e", "d", "e", "d", " ", "t", "i", "m", "e", " ", "l", "i", "m", "i", "t", " ", "o", "f", " ">> \o limit \o <<"m", "s">>
MemoryLimitError(operation, limit) ==
  <<"O", "p", "e", "r", "a", "t", "i", "o", "n", " ">> \o operation \o <<" ", "e", "x", "c", "e", "e", "d", "e", "d", " ", "m", "e", "m", "o", "r", "y", " ", "l", "i", "m", "i", "t", " ", "o", "f", " ">> \o limit \o <<"M", "B">>

\* Number.prototype.toString for a non-negative integer
RECURSIVE NumberToString(_)
NumberToString(n) ==
  IF n < 10 THEN <<DigitChars[n + 1]>>
  ELSE NumberToString(n \div 10) \o <<DigitChars[(n % 10) + 1]>>

checkLimits(cfg, operation, duration, memoryUsage) ==
  IF /\ Truthy(duration) /\ Truthy(cfg.maxExecutionTime)
     /\ duration.value > cfg.maxExecutionTime.value
  THEN Invalid(TimeLimitError(operation, NumberToString(cfg.maxExecutionTime.value)))
  ELSE IF /\ Truthy(memoryUsage) /\ Truthy(cfg.maxMemoryUsage)
          /\ memoryUsage.value > cfg.maxMemoryUsage.value
  THEN Invalid(MemoryLimitError(operation, NumberToString(cfg.maxMemoryUsage.value)))
  ELSE Valid

----------------------------------------------------------------------------
(* The strings the validators are checked on: every concatenation of at    *)
(* most n of a set of parts, and strings at the length caps.               *)

RECURSIVE Strings(_, _)
Strings(parts, n) ==
  IF n = 0 THEN {<<>>}
  ELSE Strings(parts, n - 1)
       \cup {s \o p : s \in Strings(parts, n - 1), p \in parts}

Pad(n) == [i \in 1..n |-> "x"]

\* strings of exactly the cap and of one character more, ending in each tail
AtCap(cap, tails) ==
  {Pad(cap - Len(t)) \o t : t \in tails} \cup {Pad(cap + 1 - Len(t)) \o t : t \in tails}

MaxScriptParts == 3

ScriptParts ==
  {<<"e", "v", "a", "l">>, <<"E", "v", "a", "l">>, <<"n", "e", "w", " ", "F", "u", "n", "c", "t", "i", "o", "n">>, <<"f", "u", "n", "c", "t", "i", "o", "n">>, <<"i", "n", "n", "e", "r", "H", "T", "M", "L">>,
   <<"w", "i", "n", "d", "o", "w">>, <<"l", "o", "c", "a", "l", "S", "t", "o", "r", "a", "g", "e">>, <<"(">>, <<" ">>, <<"=">>, <<".">>, <<"x">>}

\* the other keywords of the denylist, in two letter cases, each alone, and
\* followed by "(", "=" or "." with and without whitespace between
OtherScripts ==
  {k \o s \o t :
     k \in {<<"s", "e", "t", "T", "i", "m", "e", "o", "u", "t">>, <<"s", "e", "t", "I", "n", "t", "e", "r", "v", "a", "l">>, <<"d", "o", "c", "u", "m", "e", "n", "t", ".", "w", "r", "i", "t", "e">>, <<"o", "u", "t", "e", "r", "H", "T", "M", "L">>,
            <<"l", "o", "c", "a", "t", "i", "o", "n">>, <<"d", "o", "c", "u", "m", "e", "n", "t", ".", "c", "o", "o", "k", "i", "e">>, <<"s", "e", "s", "s", "i", "o", "n", "S", "t", "o", "r", "a", "g", "e">>,
            <<"S", "E", "T", "T", "I", "M", "E", "O", "U", "T">>, <<"s", "e", "t", "i", "n", "t", "e", "r", "v", "a", "l">>, <<"D", "o", "c", "u", "m", "e", "n", "t", ".", "W", "r", "i", "t", "e">>, <<"o", "u", "t", "e", "r", "h", "t", "m", "l">>,
            <<"L", "O", "C", "A", "T", "I", "O", "N">>, <<"d", "o", "c", "u", "m", "e", "n", "t", ".", "C", "o", "o", "k", "i", "e">>, <<"s", "e", "s", "s", "i", "o", "n", "s", "t", "o", "r", "a", "g", "e">>},
     s \in {<<>>, <<" ">>, <<"\t", " ">>},
     t \in {<<>>, <<"(">>, <<"=">>, <<".">>}}

Scripts ==
  Strings(ScriptParts, MaxScriptParts) \cup OtherScripts
  \cup AtCap(MaxScriptLength, {<<"x">>, <<" ", "y", ";">>})

InitScript ==
  /\ config = defaultSecurityConfig
  /\ arg \in Scripts
  /\ result = Valid
  /\ returned = FALSE
  /\ ManagerIdle

ValidateScript ==
  /\ ~returned
  /\ result' = validateScript(arg)
  /\ returned' = TRUE
  /\ UNCHANGED <<config, arg>>
  /\ UNCHANGED managerVars

NextScript == ValidateScript

SpecScript == InitScript /\ [][NextScript]_vars

\* the denylist as the claim words it: literal substrings
ClaimScriptPatterns ==
  {<<"e", "v", "a", "l", "(">>, <<"n", "e", "w", " ", "F", "u", "n", "c", "t", "i", "o", "n", "(">>, <<"s", "e", "t", "T", "i", "m", "e", "o", "u", "t", "(">>, <<"s", "e", "t", "I", "n", "t", "e", "r", "v", "a", "l", "(">>,
   <<"d", "o", "c", "u", "m", "e", "n", "t", ".", "w", "r", "i", "t", "e">>, <<"i", "n", "n", "e", "r", "H", "T", "M", "L", " ", "=">>, <<"o", "u", "t", "e", "r", "H", "T", "M", "L", " ", "=">>, <<"l", "o", "c", "a", "t", "i", "o", "n", " ", "=">>,
   <<"w", "i", "n", "d", "o", "w", ".">>, <<"d", "o", "c", "u", "m", "e", "n", "t", ".", "c", "o", "o", "k", "i", "e">>, <<"l", "o", "c", "a", "l", "S", "t", "o", "r", "a", "g", "e">>, <<"s", "e", "s", "s", "i", "o", "n", "S", "t", "o", "r", "a", "g", "e">>}

\* C4 (as stated): validateScript rejects every script that contains a
\* denylisted pattern and accepts every script that contains none and is
\* within the length cap.
C4_Original ==
  returned =>
    LET listed == \E p \in ClaimScriptPatterns : includes(arg, p)
    IN /\ listed => ~result.valid
       /\ (~listed /\ Len(arg) <= MaxScriptLength) => result.valid

\* s holds, letter case ignored, the (lower-case) word followed by n whitespace
\* characters (for some n >= 0) and then the character c
WordThen(s, word, c) ==
  \E i \in 1..(Len(s) - Len(word)) :
     /\ MatchAtI(s, i, word)
     /\ \E n \in 0..(Len(s) - Len(word) - i) :
           /\ \A k \in 0..(n - 1) : s[i + Len(word) + k] \in SpaceSet
           /\ s[i + Len(word) + n] = c

\* s holds the (lower-case) word, letter case ignored
HoldsWord(s, word) == \E i \in 1..(Len(s) - Len(word) + 1) : MatchAtI(s, i, word)

MatchesDenylist(s) ==
  \/ \E w \in {<<"e", "v", "a", "l">>, <<"f", "u", "n", "c", "t", "i", "o", "n">>, <<"s", "e", "t", "t", "i", "m", "e", "o", "u", "t">>, <<"s", "e", "t", "i", "n", "t", "e", "r", "v", "a", "l">>} :
        WordThen(s, w, "(")
  \/ \E w \in {<<"i", "n", "n", "e", "r", "h", "t", "m", "l">>, <<"o", "u", "t", "e", "r", "h", "t", "m", "l">>, <<"l", "o", "c", "a", "t", "i", "o", "n">>} : WordThen(s, w, "=")
  \/ WordThen(s, <<"w", "i", "n", "d", "o", "w">>, ".")
  \/ \E w \in {<<"d", "o", "c", "u", "m", "e", "n", "t", ".", "w", "r", "i", "t", "e">>, <<"d", "o", "c", "u", "m", "e", "n", "t", ".", "c", "o", "o", "k", "i", "e">>, <<"l", "o", "c", "a", "l", "s", "t", "o", "r", "a", "g", "e">>,
               <<"s", "e", "s", "s", "i", "o", "n", "s", "t", "o", "r", "a", "g", "e">>} : HoldsWord(s, w)

\* C4 (amended): validateScript rejects every script that matches a denylisted
\* pattern, where letter case is ignored, whitespace may stand between the
\* keyword and its "(", "=" or ".", and Function( counts without new; it
\* accepts every non-empty script that matches none and is within the cap.
C4_Amended ==
  returned =>
    /\ MatchesDenylist(arg) => ~result.valid
    /\ (~MatchesDenylist(arg) /\ arg # <<>> /\ Len(arg) <= MaxScriptLength)
         => result.valid
    /\ Len(arg) > MaxScriptLength => ~result.valid

\* a script that holds none of the literal substrings has been rejected for
\* matching /Function\s*\(/i
C4_Witness ==
  /\ returned
  /\ arg = <<"f", "u", "n", "c", "t", "i", "o", "n", " ", "(">>
  /\ result = Invalid(<<"S", "c", "r", "i", "p", "t", " ", "c", "o", "n", "t", "a", "i", "n", "s", " ", "p", "o", "t", "e", "n", "t", "i", "a", "l", "l", "y", " ", "d", "a", "n", "g", "e", "r", "o", "u", "s", " ", "o", "p", "e", "r", "a", "t", "i", "o", "n", "s">>)

----------------------------------------------------------------------------

MaxSelectorParts == 3

SelectorParts ==
  {<<"d", "i", "v">>, <<"[">>, <<"]">>, <<"=">>, <<"o", "n", "c", "l", "i", "c", "k">>, <<"o", "n", "l", "o", "a", "d">>, <<"O", "N", "E", "R", "R", "O", "R">>,
   <<"j", "a", "v", "a", "s", "c", "r", "i", "p", "t", ":">>, <<"v", "b", "s", "c", "r", "i", "p", "t", ":">>, <<"n", "o", "s", "c", "r", "i", "p", "t">>, <<":">>, <<"e", "x", "p", "r", "e", "s", "s", "i", "o", "n">>,
   <<"(">>, <<"*">>, <<" ">>, <<"x">>}

Selectors ==
  Strings(SelectorParts, MaxSelectorParts) \cup AtCap(MaxSelectorLength, {<<"x">>})

InitSelector ==
  /\ config = defaultSecurityConfig
  /\ arg \in Selectors
  /\ result = Valid
  /\ returned = FALSE
  /\ ManagerIdle

ValidateSelector ==
  /\ ~returned
  /\ result' = validateSelector(arg)
  /\ returned' = TRUE
  /\ UNCHANGED <<config, arg>>
  /\ UNCHANGED managerVars

NextSelector == ValidateSelector

SpecSelector == InitSelector /\ [][NextSelector]_vars

\* s holds, letter case ignored, on<event>= for a non-empty event name
HoldsEventHandler(s) ==
  \E i \in 1..(Len(s) - 1) :
     /\ MatchAtI(s, i, <<"o", "n">>)
     /\ \E j \in (i + 3)..Len(s) :
           /\ \A k \in (i + 2)..(j - 1) : s[k] \in UpperSet \cup LowerSet
           /\ s[j] = "="

\* C5: validateSelector rejects every selector that is longer than 1000
\* characters, holds a character outside the allow-list, or holds (in any
\* letter case) javascript:, expression(, vbscript: or on<event>=; it accepts
\* every other non-empty selector.
C5_SelectorContract ==
  returned =>
    (result.valid <=>
       /\ arg # <<>>
       /\ Len(arg) <= MaxSelectorLength
       /\ \A k \in 1..Len(arg) :
             arg[k] \in UpperSet \cup LowerSet \cup DigitSet \cup SpaceSet
                        \cup {"-", "_", "[", "]", "=", "'", "\"", ".", ":", ">",
                              "#", ",", "(", ")"}
       /\ ~HoldsWord(arg, <<"j", "a", "v", "a", "s", "c", "r", "i", "p", "t", ":">>)
       /\ ~HoldsWord(arg, <<"e", "x", "p", "r", "e", "s", "s", "i", "o", "n", "(">>)
       /\ ~HoldsWord(arg, <<"v", "b", "s", "c", "r", "i", "p", "t", ":">>)
       /\ ~HoldsEventHandler(arg))

----------------------------------------------------------------------------

MaxSanitizeParts == 3

SanitizeParts ==
  {<<"j", "a", "v", "a">>, <<"s", "c", "r", "i", "p", "t", ":">>, <<"j", "a", "v", "a", "s", "c", "r", "i", "p", "t", ":">>, <<"J", "a", "v", "a", "S", "c", "r", "i", "p", "t", ":">>, <<"<">>, <<">">>,
   <<"o", "n">>, <<"c", "l", "i", "c", "k">>, <<"=">>, <<" ">>, <<"x">>}

InitSanitize ==
  /\ config = defaultSecurityConfig
  /\ arg \in Strings(SanitizeParts, MaxSanitizeParts)
  /\ result = <<>>
  /\ returned = FALSE
  /\ ManagerIdle

SanitizeString ==
  /\ ~returned
  /\ result' = sanitizeString(arg)
  /\ returned' = TRUE
  /\ UNCHANGED <<config, arg>>
  /\ UNCHANGED managerVars

NextSanitize == SanitizeString

SpecSanitize == InitSanitize /\ [][NextSanitize]_vars

\* s holds, letter case ignored, on<word>= for a non-empty word
HoldsHandlerPattern(s) ==
  \E i \in 1..(Len(s) - 1) :
     /\ MatchAtI(s, i, <<"o", "n">>)
     /\ \E j \in (i + 3)..Len(s) :
           /\ \A k \in (i + 2)..(j - 1) : s[k] \in WordSet
           /\ s[j] = "="

\* C7: for every input, the result of sanitizeString holds no "<" or ">", no
\* javascript: (in any letter case) and no inline event handler on<word>=.
C7_SanitizedIsClean ==
  returned =>
    /\ "<" \notin Range(result)
    /\ ">" \notin Range(result)
    /\ ~HoldsWord(result, <<"j", "a", "v", "a", "s", "c", "r", "i", "p", "t", ":">>)
    /\ ~HoldsHandlerPattern(result)

----------------------------------------------------------------------------

MaxLimit == 2

OptionalNumbers == {NoNumber} \cup {Number(n) : n \in 0..MaxLimit}

InitLimits ==
  /\ config \in {[defaultSecurityConfig EXCEPT !.maxExecutionTime = t,
                                               !.maxMemoryUsage = m] :
                   t \in OptionalNumbers, m \in OptionalNumbers}
  /\ arg \in {[operation |-> <<"t", "e", "s", "t">>, duration |-> d, memoryUsage |-> u] :
                d \in OptionalNumbers, u \in OptionalNumbers}
  /\ result = Valid
  /\ returned = FALSE
  /\ ManagerIdle

CheckLimits ==
  /\ ~returned
  /\ result' = checkLimits(config, arg.operation, arg.duration, arg.memoryUsage)
  /\ returned' = TRUE
  /\ UNCHANGED <<config, arg>>
  /\ UNCHANGED managerVars

NextLimits == CheckLimits

SpecLimits == InitLimits /\ [][NextLimits]_vars

Exceeds(value, limit) ==
  value.defined /\ limit.defined /\ value.value > limit.value

\* C6: checkLimits returns invalid if and only if a supplied duration is
\* greater than the configured maxExecutionTime (the error mentions "time
\* limit") or a supplied memoryUsage is greater than the configured
\* maxMemoryUsage (the error mentions "memory limit"), for all non-negative
\* values of the arguments and of the limits.
C6_LimitsContract ==
  returned =>
    /\ ~result.valid <=> \/ Exceeds(arg.duration, config.maxExecutionTime)
                         \/ Exceeds(arg.memoryUsage, config.maxMemoryUsage)
    /\ ~result.valid =>
         \/ /\ Exceeds(arg.duration, config.maxExecutionTime)
            /\ includes(result.error, <<"t", "i", "m", "e", " ", "l", "i", "m", "i", "t">>)
         \/ /\ Exceeds(arg.memoryUsage, config.maxMemoryUsage)
            /\ includes(result.error, <<"m", "e", "m", "o", "r", "y", " ", "l", "i", "m", "i", "t">>)


----------------------------------------------------------------------------
(* BrowserManager: the session store and the operations on it.           *)
(* A call of an async method runs from one await to the next as one      *)
(* step; calls[c].pc names the await call c is suspended at.  The        *)
(* browser's answer to each request is chosen by the environment: a      *)
(* request on a closed target fails, any other request may succeed or    *)
(* fail.                                                                 *)

NoId == <<>>

SessionIdArgs == {NoId, <<"a">>, <<"b">>}

\* generateSessionId: the n-th identifier; n stands for the timestamp and the
\* random suffix, which differ from one identifier to the next
GeneratedId(n) == <<"s", "e", "s", "s", "i", "o", "n", "_">> \o NumberToString(n)

EnvError == <<"T", "a", "r", "g", "e", "t", " ", "p", "a", "g", "e", ",", " ", "c", "o", "n", "t", "e", "x", "t", " ", "o", "r", " ", "b", "r", "o", "w", "s", "e", "r", " ", "h", "a", "s", " ", "b", "e", "e", "n", " ", "c", "l", "o", "s", "e", "d">>
NullBrowserError == <<"C", "a", "n", "n", "o", "t", " ", "r", "e", "a", "d", " ", "p", "r", "o", "p", "e", "r", "t", "i", "e", "s", " ", "o", "f", " ", "n", "u", "l", "l", " ", "(", "r", "e", "a", "d", "i", "n", "g", " ", "'", "n", "e", "w", "C", "o", "n", "t", "e", "x", "t", "'", ")">>
NoSessionError == <<"C", "a", "n", "n", "o", "t", " ", "r", "e", "a", "d", " ", "p", "r", "o", "p", "e", "r", "t", "i", "e", "s", " ", "o", "f", " ", "u", "n", "d", "e", "f", "i", "n", "e", "d", " ", "(", "r", "e", "a", "d", "i", "n", "g", " ", "'", "p", "a", "g", "e", "'", ")">>
BrowserInitializationFailed(message) == <<"B", "r", "o", "w", "s", "e", "r", " ", "i", "n", "i", "t", "i", "a", "l", "i", "z", "a", "t", "i", "o", "n", " ", "f", "a", "i", "l", "e", "d", ":", " ">> \o message
SessionCreationFailed(message) == <<"S", "e", "s", "s", "i", "o", "n", " ", "c", "r", "e", "a", "t", "i", "o", "n", " ", "f", "a", "i", "l", "e", "d", ":", " ">> \o message

BlankUrl == <<"a", "b", "o", "u", "t", ":", "b", "l", "a", "n", "k">>

NavigateUrls ==
  {<<"h", "t", "t", "p", "s", ":", "/", "/", "e", "x", "a", "m", "p", "l", "e", ".", "c", "o", "m", "/">>, <<"h", "t", "t", "p", "s", ":", "/", "/", "e", "x", "a", "m", "p", "l", "e", ".", "c", "o", "m", "/", "p", "r", "o", "d", "u", "c", "t", "s", "/", "s", "h", "o", "e">>,
   <<"h", "t", "t", "p", ":", "/", "/", "l", "o", "c", "a", "l", "h", "o", "s", "t", ":", "3", "0", "0", "0", "/">>}

ScreenshotSelectors == {<<>>, <<"#", "m", "a", "i", "n">>, <<"d", "i", "v", "[", "o", "n", "l", "o", "a", "d", "=", "x", "]">>}

\* this.sessions.has(id), this.sessions.get(id), set and delete of the Map
Has(id) == \E i \in 1..Len(sessions) : sessions[i].id = id
IndexOf(id) == CHOOSE i \in 1..Len(sessions) : sessions[i].id = id
Get(id) == sessions[IndexOf(id)]
MapSet(entry) ==
  IF Has(entry.id) THEN [sessions EXCEPT ![IndexOf(entry.id)] = entry]
  ELSE Append(sessions, entry)
MapDeleteAll(id) == <<>>

MapDelete(id) ==
  IF Has(id)
  THEN SubSeq(sessions, 1, IndexOf(id) - 1)
         \o SubSeq(sessions, IndexOf(id) + 1, Len(sessions))
  ELSE sessions

BrowserUp(b) == browsers[b] # "closed"
ContextOpen(k) == contexts[k].open /\ BrowserUp(contexts[k].browser)
PageOpen(p) == ContextOpen(pages[p].context)

Returned(r) == [r EXCEPT !.pc = "done", !.ret = "success"]
Failed(r, message) == [r EXCEPT !.pc = "done", !.ret = "failure", !.error = message]
Thrown(r, message) == [r EXCEPT !.pc = "done", !.ret = "throw", !.error = message]

Begin(c) ==
  /\ calls[c].pc = "idle"
  /\ c > 1 => calls[c - 1].pc # "idle"

\* createSession from `const id = sessionId || this.generateSessionId()` to
\* the await of this.browser!.newContext(...)
NewContext(c, r) ==
  LET id == IF r.sessionId # NoId THEN r.sessionId ELSE GeneratedId(generated + 1)
  IN /\ generated' = IF r.sessionId # NoId THEN generated ELSE generated + 1
     /\ calls' = [calls EXCEPT ![c] =
          IF browser = 0
          THEN Thrown([r EXCEPT !.id = id], SessionCreationFailed(NullBrowserError))
          ELSE [r EXCEPT !.pc = "newContext", !.id = id, !.b = browser]]
     /\ UNCHANGED <<browser, sessions, browsers, contexts, pages, now>>

\* createSession to its first await: initialize() when there is no browser
CreateSession(c, r) ==
  IF browser = 0
  THEN /\ calls' = [calls EXCEPT ![c] = [r EXCEPT !.pc = "launch"]]
       /\ UNCHANGED <<browser, sessions, generated, browsers, contexts, pages, now>>
  ELSE NewContext(c, r)

\* getSession to its first await
GetSession(c, r) ==
  IF r.sessionId # NoId /\ Has(r.sessionId)
  THEN /\ sessions' = [sessions EXCEPT ![IndexOf(r.sessionId)].lastActivity = now]
       /\ now' = now + 1
       /\ calls' = [calls EXCEPT ![c] =
            [r EXCEPT !.pc = "gotSession", !.session = Get(r.sessionId).context]]
       /\ UNCHANGED <<browser, generated, browsers, contexts, pages>>
  ELSE CreateSession(c, r)

\* initialize() is called
Initialize(c) ==
  /\ Begin(c)
  /\ calls' = [calls EXCEPT ![c] = [NoCall EXCEPT !.op = "initialize", !.pc = "launch"]]
  /\ UNCHANGED <<browser, sessions, generated, browsers, contexts, pages, now>>

NavigateUnchecked(c, urls, sessionIds) ==
  /\ Begin(c)
  /\ \E url \in urls, sessionId \in sessionIds :
       GetSession(c, [NoCall EXCEPT !.op = "navigate", !.url = url,
                                    !.sessionId = sessionId])

\* navigate(url, sessionId) is called, its arguments taken from the given sets
NavigateOf(c, urls, sessionIds) ==
  /\ Begin(c)
  /\ \E url \in urls, sessionId \in sessionIds :
       LET r == [NoCall EXCEPT !.op = "navigate", !.url = url, !.sessionId = sessionId]
           urlValidation == validateUrl(config, url)
       IN IF ~urlValidation.valid
          THEN /\ calls' = [calls EXCEPT ![c] = Thrown(r, urlValidation.error)]
               /\ UNCHANGED <<browser, sessions, generated, browsers, contexts, pages, now>>
          ELSE GetSession(c, r)

Navigate(c) == NavigateOf(c, NavigateUrls, SessionIdArgs)

\* screenshot(sessionId, {selector}) is called, its arguments taken from the
\* given sets
ScreenshotOf(c, selectors, sessionIds) ==
  /\ Begin(c)
  /\ \E selector \in selectors, sessionId \in sessionIds :
       GetSession(c, [NoCall EXCEPT !.op = "screenshot", !.selector = selector,
                                    !.sessionId = sessionId])

Screenshot(c) == ScreenshotOf(c, ScreenshotSelectors, SessionIdArgs)

LaunchedWrapped(c) ==
  /\ calls[c].pc = "launch"
  /\ \/ /\ browsers' = Append(browsers, "open")
        /\ browser' = Len(browsers) + 1
        /\ calls' = [calls EXCEPT ![c] =
             IF calls[c].op = "initialize" THEN Returned(calls[c])
             ELSE [calls[c] EXCEPT !.pc = "initialized"]]
     \/ /\ calls' = [calls EXCEPT ![c] =
             IF calls[c].op = "initialize"
             THEN Thrown(calls[c], BrowserInitializationFailed(EnvError))
             ELSE Thrown(calls[c],
                         SessionCreationFailed(BrowserInitializationFailed(EnvError)))]
        /\ UNCHANGED <<browser, browsers>>
  /\ UNCHANGED <<sessions, generated, contexts, pages, now>>

\* chromium.launch answers
Launched(c) ==
  /\ calls[c].pc = "launch"
  /\ \/ /\ browsers' = Append(browsers, "open")
        /\ browser' = Len(browsers) + 1
        /\ calls' = [calls EXCEPT ![c] =
             IF calls[c].op = "initialize" THEN Returned(calls[c])
             ELSE [calls[c] EXCEPT !.pc = "initialized"]]
     \/ /\ calls' = [calls EXCEPT ![c] =
             Thrown(calls[c], BrowserInitializationFailed(EnvError))]
        /\ UNCHANGED <<browser, browsers>>
  /\ UNCHANGED <<sessions, generated, contexts, pages, now>>

\* createSession resumes after `await this.initialize()`
Initialized(c) ==
  /\ calls[c].pc = "initialized"
  /\ NewContext(c, calls[c])

\* browser.newContext answers
ContextCreated(c) ==
  /\ calls[c].pc = "newContext"
  /\ \/ /\ BrowserUp(calls[c].b)
        /\ contexts' = Append(contexts, [browser |-> calls[c].b, open |-> TRUE])
        /\ calls' = [calls EXCEPT ![c] =
             [calls[c] EXCEPT !.pc = "newPage", !.context = Len(contexts) + 1]]
     \/ /\ calls' = [calls EXCEPT ![c] =
             Thrown(calls[c], SessionCreationFailed(EnvError))]
        /\ UNCHANGED contexts
  /\ UNCHANGED <<browser, sessions, generated, browsers, pages, now>>

\* context.newPage answers
PageCreated(c) ==
  /\ calls[c].pc = "newPage"
  /\ \/ /\ ContextOpen(calls[c].context)
        /\ pages' = Append(pages, [context |-> calls[c].context, url |-> BlankUrl])
        /\ calls' = [calls EXCEPT ![c] =
             [calls[c] EXCEPT !.pc = "stealth", !.page = Len(pages) + 1]]
     \/ /\ calls' = [calls EXCEPT ![c] =
             Thrown(calls[c], SessionCreationFailed(EnvError))]
        /\ UNCHANGED pages
  /\ UNCHANGED <<browser, sessions, generated, browsers, contexts, now>>

\* createSession resumes after `await this.initializeStealthMode(page)`,
\* which catches its own errors, and stores the session
SessionStored(c) ==
  /\ calls[c].pc = "stealth"
  /\ sessions' = MapSet([id |-> calls[c].id, context |-> calls[c].context,
                         page |-> calls[c].page, createdAt |-> now,
                         lastActivity |-> now])
  /\ now' = now + 1
  /\ calls' = [calls EXCEPT ![c] = [calls[c] EXCEPT !.pc = "created"]]
  /\ UNCHANGED <<browser, generated, browsers, contexts, pages>>

\* getSession resumes after `await this.createSession(sessionId)`
SessionCreated(c) ==
  /\ calls[c].pc = "created"
  /\ calls' = [calls EXCEPT ![c] =
       [calls[c] EXCEPT !.pc = "gotSession",
                        !.session = IF Has(calls[c].id) THEN Get(calls[c].id).context
                                    ELSE 0]]
  /\ UNCHANGED <<browser, sessions, generated, browsers, contexts, pages, now>>

PageOf(k) == CHOOSE p \in 1..Len(pages) : pages[p].context = k

Origin(url) ==
  LET u == ParseUrl(url)
  IN u.protocol \o <<"/", "/">> \o u.hostname
       \o (IF u.port = <<>> THEN <<>> ELSE <<":">> \o u.port)

endsWith(s, c) == Len(s) > 0 /\ s[Len(s)] = c

\* navigate resumes after `await this.getSession(sessionId)`
NavigateSession(c) ==
  /\ calls[c].pc = "gotSession"
  /\ calls[c].op = "navigate"
  /\ calls' = [calls EXCEPT ![c] =
       IF calls[c].session = 0 THEN Failed(calls[c], NoSessionError)
       ELSE IF includes(calls[c].url, <<"/", "p", "r", "o", "d", "u", "c", "t", "s", "/">>) /\ ~endsWith(calls[c].url, "/")
            THEN [calls[c] EXCEPT !.pc = "gotoBase"]
            ELSE [calls[c] EXCEPT !.pc = "goto"]]
  /\ UNCHANGED <<browser, sessions, generated, browsers, contexts, pages, now>>

\* session.page.goto(baseUrl) answers
BaseVisited(c) ==
  /\ calls[c].pc = "gotoBase"
  /\ LET p == PageOf(calls[c].session)
     IN \/ /\ PageOpen(p)
           /\ pages' = [pages EXCEPT ![p].url = Origin(calls[c].url) \o <<"/">>]
           /\ calls' = [calls EXCEPT ![c] = [calls[c] EXCEPT !.pc = "humanDelay"]]
        \/ /\ calls' = [calls EXCEPT ![c] = Failed(calls[c], EnvError)]
           /\ UNCHANGED pages
  /\ UNCHANGED <<browser, sessions, generated, browsers, contexts, now>>

\* the humanDelay timer fires
Delayed(c) ==
  /\ calls[c].pc = "humanDelay"
  /\ calls' = [calls EXCEPT ![c] = [calls[c] EXCEPT !.pc = "goto"]]
  /\ UNCHANGED <<browser, sessions, generated, browsers, contexts, pages, now>>

\* session.page.goto(url) answers
Visited(c) ==
  /\ calls[c].pc = "goto"
  /\ LET p == PageOf(calls[c].session)
     IN \/ /\ PageOpen(p)
           /\ pages' = [pages EXCEPT ![p].url = calls[c].url]
           /\ calls' = [calls EXCEPT ![c] = [calls[c] EXCEPT !.pc = "title"]]
        \/ /\ calls' = [calls EXCEPT ![c] = Failed(calls[c], EnvError)]
           /\ UNCHANGED pages
  /\ UNCHANGED <<browser, sessions, generated, browsers, contexts, now>>

\* session.page.title() answers
Titled(c) ==
  /\ calls[c].pc = "title"
  /\ LET p == PageOf(calls[c].session)
     IN calls' = [calls EXCEPT ![c] =
          IF PageOpen(p) THEN [Returned(calls[c]) EXCEPT !.seen = pages[p].url]
          ELSE Failed(calls[c], EnvError)]
  /\ UNCHANGED <<browser, sessions, generated, browsers, contexts, pages, now>>

\* screenshot from `if (options.selector)` to the await of element.screenshot
Capture(r) ==
  LET selectorValidation == validateSelector(r.selector)
  IN IF r.selector # <<>> /\ ~selectorValidation.valid
     THEN Failed(r, selectorValidation.error)
     ELSE [r EXCEPT !.pc = "capture"]

\* screenshot resumes after `await this.getSession(sessionId)`
ScreenshotSession(c) ==
  /\ calls[c].pc = "gotSession"
  /\ calls[c].op = "screenshot"
  /\ calls' = [calls EXCEPT ![c] =
       IF calls[c].session = 0 THEN Failed(calls[c], NoSessionError)
       ELSE IF includes(pages[PageOf(calls[c].session)].url, <<"/", "p", "r", "o", "d", "u", "c", "t", "s", "/">>)
            THEN [calls[c] EXCEPT !.pc = "contentWait"]
            ELSE Capture(calls[c])]
  /\ UNCHANGED <<browser, sessions, generated, browsers, contexts, pages, now>>

\* the waits for the products page end, by success or by timeout
ContentWaited(c) ==
  /\ calls[c].pc = "contentWait"
  /\ calls' = [calls EXCEPT ![c] = Capture(calls[c])]
  /\ UNCHANGED <<browser, sessions, generated, browsers, contexts, pages, now>>

CapturedDropsSession(c) ==
  /\ calls[c].pc = "capture"
  /\ LET p == PageOf(calls[c].session)
     IN \/ /\ PageOpen(p)
           /\ calls' = [calls EXCEPT ![c] = [Returned(calls[c]) EXCEPT !.seen = pages[p].url]]
           /\ UNCHANGED sessions
        \/ /\ calls' = [calls EXCEPT ![c] = Failed(calls[c], EnvError)]
           /\ sessions' = MapDelete(calls[c].sessionId)
  /\ UNCHANGED <<browser, generated, browsers, contexts, pages, now>>

\* element.screenshot answers
Captured(c) ==
  /\ calls[c].pc = "capture"
  /\ LET p == PageOf(calls[c].session)
     IN \/ /\ PageOpen(p)
           /\ calls' = [calls EXCEPT ![c] = [Returned(calls[c]) EXCEPT !.seen = pages[p].url]]
        \/ calls' = [calls EXCEPT ![c] = Failed(calls[c], EnvError)]
  /\ UNCHANGED <<browser, sessions, generated, browsers, contexts, pages, now>>

\* closeSession(sessionId) is called
CloseSession(c) ==
  /\ Begin(c)
  /\ \E sessionId \in SessionIdArgs \ {NoId} :
       LET r == [NoCall EXCEPT !.op = "closeSession", !.sessionId = sessionId]
       IN calls' = [calls EXCEPT ![c] =
            IF Has(sessionId)
            THEN [r EXCEPT !.pc = "contextClose", !.session = Get(sessionId).context]
            ELSE Returned(r)]
  /\ UNCHANGED <<browser, sessions, generated, browsers, contexts, pages, now>>

\* the Map iterators of the cleanups in progress, after the entry of id is deleted
Iterators(id, cs) ==
  [d \in DOMAIN calls |->
     IF cs[d].op = "cleanup" /\ cs[d].pc = "contextClose" /\ Has(id)
        /\ cs[d].pos >= IndexOf(id)
     THEN [cs[d] EXCEPT !.pos = @ - 1]
     ELSE cs[d]]

\* session.context.close() of closeSession answers
SessionClosed(c) ==
  /\ calls[c].pc = "contextClose"
  /\ calls[c].op = "closeSession"
  /\ \/ /\ contexts' = [contexts EXCEPT ![calls[c].session].open = FALSE]
        /\ sessions' = MapDelete(calls[c].sessionId)
        /\ calls' = Iterators(calls[c].sessionId,
                              [calls EXCEPT ![c] = Returned(calls[c])])
     \/ /\ calls' = [calls EXCEPT ![c] = Thrown(calls[c], EnvError)]
        /\ UNCHANGED <<contexts, sessions>>
  /\ UNCHANGED <<browser, generated, browsers, pages, now>>

\* the Map iterators of the cleanups in progress, after the map is cleared
Restarted(cs) ==
  [d \in DOMAIN cs |->
     IF cs[d].op = "cleanup" /\ cs[d].pc = "contextClose"
     THEN [cs[d] EXCEPT !.pos = 0]
     ELSE cs[d]]

CloseBrowserKeepMap(c, r) ==
  /\ sessions' = sessions
  /\ IF browser # 0
     THEN /\ calls' = [calls EXCEPT ![c] = [r EXCEPT !.pc = "browserClose", !.b = browser]]
          /\ browsers' = [browsers EXCEPT ![browser] =
                            IF @ = "open" THEN "closing" ELSE @]
     ELSE /\ calls' = [calls EXCEPT ![c] = Returned(r)]
          /\ UNCHANGED browsers

\* cleanup from the end of its loop: this.sessions.clear() and the await of
\* this.browser.close()
CloseBrowser(c, r) ==
  /\ sessions' = <<>>
  /\ IF browser # 0
     THEN /\ calls' = [Restarted(calls) EXCEPT ![c] =
                        [r EXCEPT !.pc = "browserClose", !.b = browser]]
          /\ browsers' = [browsers EXCEPT ![browser] =
                            IF @ = "open" THEN "closing" ELSE @]
     ELSE /\ calls' = [Restarted(calls) EXCEPT ![c] = Returned(r)]
          /\ UNCHANGED browsers

\* cleanup's loop at the entry after position pos
CloseNext(c, r, pos) ==
  IF pos < Len(sessions)
  THEN /\ calls' = [calls EXCEPT ![c] =
            [r EXCEPT !.pc = "contextClose", !.pos = pos + 1,
                      !.session = sessions[pos + 1].context]]
       /\ UNCHANGED <<sessions, browsers>>
  ELSE CloseBrowser(c, r)

\* cleanup() is called
Cleanup(c) ==
  /\ Begin(c)
  /\ CloseNext(c, [NoCall EXCEPT !.op = "cleanup"], 0)
  /\ UNCHANGED <<browser, generated, contexts, pages, now>>

\* session.context.close() of cleanup's loop answers
ContextClosed(c) ==
  /\ calls[c].pc = "contextClose"
  /\ calls[c].op = "cleanup"
  /\ \/ /\ contexts' = [contexts EXCEPT ![calls[c].session].open = FALSE]
        /\ CloseNext(c, calls[c], calls[c].pos)
     \/ /\ calls' = [calls EXCEPT ![c] = Thrown(calls[c], EnvError)]
        /\ UNCHANGED <<contexts, sessions, browsers>>
  /\ UNCHANGED <<browser, generated, pages, now>>

\* this.browser.close() answers
BrowserClosed(c) ==
  /\ calls[c].pc = "browserClose"
  /\ \/ /\ browsers' = [browsers EXCEPT ![calls[c].b] = "closed"]
        /\ browser' = 0
        /\ calls' = [calls EXCEPT ![c] = Returned(calls[c])]
     \/ /\ calls' = [calls EXCEPT ![c] = Thrown(calls[c], EnvError)]
        /\ UNCHANGED <<browser, browsers>>
  /\ UNCHANGED <<sessions, generated, contexts, pages, now>>

Init ==
  /\ config = defaultSecurityConfig
  /\ arg = <<>>
  /\ result = Valid
  /\ returned = FALSE
  /\ ManagerIdle

Step(c) ==
  \/ Initialize(c)
  \/ Navigate(c)
  \/ Screenshot(c)
  \/ CloseSession(c)
  \/ Cleanup(c)
  \/ Launched(c)
  \/ Initialized(c)
  \/ ContextCreated(c)
  \/ PageCreated(c)
  \/ SessionStored(c)
  \/ SessionCreated(c)
  \/ NavigateSession(c)
  \/ BaseVisited(c)
  \/ Delayed(c)
  \/ Visited(c)
  \/ Titled(c)
  \/ ScreenshotSession(c)
  \/ ContentWaited(c)
  \/ Captured(c)
  \/ SessionClosed(c)
  \/ ContextClosed(c)
  \/ BrowserClosed(c)

Next == (\E c \in DOMAIN calls : Step(c)) /\ UNCHANGED validatorVars

Spec == Init /\ [][Next]_vars

----------------------------------------------------------------------------
(* The session store alone: sessions created by screenshot calls without *)
(* a selector, closed by closeSession and by cleanup, with more calls    *)
(* than Spec has.                                                        *)

MaxStoreCalls == 3

\* how many calls may be in progress at once
MaxOverlap == 2

InProgress(cs) == {c \in DOMAIN cs : cs[c].pc \notin {"idle", "done"}}

InitStore ==
  /\ config = defaultSecurityConfig
  /\ arg = <<>>
  /\ result = Valid
  /\ returned = FALSE
  /\ browser = 0
  /\ sessions = <<>>
  /\ generated = 0
  /\ calls = [c \in 1..MaxStoreCalls |-> NoCall]
  /\ browsers = <<>>
  /\ contexts = <<>>
  /\ pages = <<>>
  /\ now = 0

StepStore(c) ==
  \/ ScreenshotOf(c, {<<>>}, SessionIdArgs \ {NoId})
  \/ CloseSession(c)
  \/ Cleanup(c)
  \/ Launched(c)
  \/ Initialized(c)
  \/ ContextCreated(c)
  \/ PageCreated(c)
  \/ SessionStored(c)
  \/ SessionCreated(c)
  \/ ScreenshotSession(c)
  \/ Captured(c)
  \/ SessionClosed(c)
  \/ ContextClosed(c)
  \/ BrowserClosed(c)

NextStore ==
  /\ \E c \in DOMAIN calls : StepStore(c)
  /\ Cardinality(InProgress(calls')) <= MaxOverlap
  /\ UNCHANGED validatorVars

SpecStore == InitStore /\ [][NextStore]_vars

----------------------------------------------------------------------------
(* The session store's contract *)

ClosesOrCleans(c, id) ==
  /\ calls'[c].pc # calls[c].pc
  /\ \/ calls'[c].op = "cleanup"
     \/ calls'[c].op = "closeSession" /\ calls'[c].sessionId = id

SessionKept ==
  \A i \in 1..Len(sessions) :
    \/ \E c \in 1..MaxCalls : ClosesOrCleans(c, sessions[i].id)
    \/ \E j \in 1..Len(sessions') :
         /\ sessions'[j].id = sessions[i].id
         /\ sessions'[j].context = sessions[i].context
         /\ sessions'[j].page = sessions[i].page

SessionsDistinct ==
  \A i, j \in 1..Len(sessions) :
    i # j => /\ sessions[i].id # sessions[j].id
             /\ sessions[i].context # sessions[j].context
             /\ sessions[i].page # sessions[j].page

\* C8: once a session is stored for an identifier, the map keeps that
\* session (same context, same page) for the identifier until
\* closeSession(id) or cleanup acts, so that every later getSession(id)
\* returns it and creates no context; and in every state the map holds at
\* most one session per identifier and no two sessions share a context or
\* a page.
C8_SameSession == [][SessionKept /\ SessionsDistinct']_vars

UsesSession(c) ==
  /\ calls[c].op \in {"navigate", "screenshot"}
  /\ calls[c].ret = "success"

\* C9: two operations called without sessionId that both succeed have run
\* on the same session, and a screenshot after a navigate has captured the
\* page the navigate reported.
C9_DefaultSession ==
  \A c, d \in 1..MaxCalls :
    (c < d /\ UsesSession(c) /\ UsesSession(d)
       /\ calls[c].sessionId = NoId /\ calls[d].sessionId = NoId)
    => /\ calls[d].session = calls[c].session
       /\ (calls[c].op = "navigate" /\ calls[d].op = "screenshot")
            => calls[d].seen = calls[c].seen

CleanupCompletes(c) ==
  /\ calls[c].pc # "done"
  /\ calls'[c].pc = "done"
  /\ calls'[c].op = "cleanup"
  /\ calls'[c].ret = "success"

\* C10: in the state in which a cleanup() completes, the session map is
\* empty and the browser handle is null, so that the next getSession
\* launches a browser and creates a context instead of returning a session
\* stored before.
C10_CleanAfterCleanup ==
  [][\A c \in 1..MaxCalls :
       CleanupCompletes(c) => sessions' = <<>> /\ browser' = 0]_vars

----------------------------------------------------------------------------
(* cleanup and closeSession *)

CleanupStep(c) == calls'[c] # calls[c] /\ calls'[c].op = "cleanup"

\* C11: when a context's close fails during cleanup(), cleanup does not end
\* there: whenever cleanup ends from its loop over the sessions, the session
\* map is empty and the browser process is closed or closing.
C11_BestEffortCleanup ==
  [][\A c \in DOMAIN calls :
       (CleanupStep(c) /\ calls[c].pc = "contextClose" /\ calls'[c].pc = "done")
       => /\ sessions' = <<>>
          /\ \A b \in 1..Len(browsers') : browsers'[b] # "open"]_vars

\* C12 as stated: cleanup() clears the session map only after the browser
\* process is closed, so that the step of a cleanup that empties a
\* non-empty map finds no open browser in the handle.
C12_ClearedAfterBrowserClose ==
  [][\A c \in DOMAIN calls :
       (CleanupStep(c) /\ sessions # <<>> /\ sessions' = <<>>)
       => (browser = 0 \/ browsers'[browser] = "closed")]_vars

\* C12 as amended: cleanup() goes through the entries of the session map
\* closing each context, then clears the map, and only then closes the
\* browser process and sets the handle to null: when the close of the
\* browser is requested every entry has been visited, the last context
\* close has succeeded and the map is empty; and cleanup returns from the
\* browser's close with that process closed and the handle null.
C12_ClearedBeforeBrowserClose ==
  [][\A c \in DOMAIN calls :
       /\ (CleanupStep(c) /\ calls'[c].pc = "browserClose")
          => /\ sessions' = <<>>
             /\ browsers[calls'[c].b] = "open" => browsers'[calls'[c].b] = "closing"
             /\ calls[c].pc = "contextClose"
                  => /\ calls[c].pos = Len(sessions)
                     /\ ~contexts'[calls[c].session].open
       /\ (CleanupStep(c) /\ calls[c].pc = "browserClose" /\ calls'[c].ret = "success")
          => /\ browsers'[calls[c].b] = "closed"
             /\ browser' = 0
       /\ (CleanupStep(c) /\ browsers' # browsers)
          => calls[c].pc = "browserClose" \/ sessions' = <<>>]_vars

\* a cleanup has closed two sessions' contexts, cleared the map and closed
\* the browser
C12_Witness ==
  \E c \in DOMAIN calls :
    /\ calls[c].op = "cleanup"
    /\ calls[c].ret = "success"
    /\ calls[c].pos = 2
    /\ calls[c].b # 0
    /\ browsers[calls[c].b] = "closed"

CloseSessionStep(c) == calls'[c] # calls[c] /\ calls'[c].op = "closeSession"

OtherSessions(m, id) ==
  LET Other(s) == s.id # id
  IN SelectSeq(m, Other)

\* C13: closeSession(id) for a tracked id closes the context of that
\* session and removes that identifier from the map, every other session,
\* the order of the map and the browser handle staying as they were (and
\* when the close fails, closeSession throws and the map is unchanged);
\* closeSession(id) for an untracked id returns without changing anything.
C13_CloseSessionFrame ==
  [][\A c \in DOMAIN calls :
       /\ (CloseSessionStep(c) /\ calls[c].pc = "idle")
          => /\ UNCHANGED <<browser, sessions, generated, browsers, contexts, pages, now>>
             /\ ~Has(calls'[c].sessionId)
                  => calls'[c].pc = "done" /\ calls'[c].ret = "success"
             /\ Has(calls'[c].sessionId)
                  => /\ calls'[c].pc = "contextClose"
                     /\ calls'[c].session = Get(calls'[c].sessionId).context
       /\ (CloseSessionStep(c) /\ calls[c].pc = "contextClose")
          => /\ UNCHANGED <<browser, generated, browsers, pages, now>>
             /\ calls'[c].pc = "done"
             /\ calls'[c].ret = "success"
                  => /\ ~contexts'[calls[c].session].open
                     /\ \A k \in 1..Len(contexts) :
                          k # calls[c].session => contexts'[k] = contexts[k]
                     /\ sessions' = OtherSessions(sessions, calls[c].sessionId)
             /\ calls'[c].ret # "success"
                  => /\ calls'[c].ret = "throw"
                     /\ UNCHANGED <<sessions, contexts>>]_vars

\* a closeSession has closed and removed one session while another session
\* stays tracked
C13_Witness ==
  \E c \in DOMAIN calls :
    /\ calls[c].op = "closeSession"
    /\ calls[c].ret = "success"
    /\ calls[c].session # 0
    /\ ~contexts[calls[c].session].open
    /\ Len(sessions) = 1
    /\ sessions[1].id # calls[c].sessionId
    /\ contexts[sessions[1].context].open

----------------------------------------------------------------------------
(* extractContent, interactElement and executeScript *)

ExtractSelectors == {<<>>, <<"#", "m", "a", "i", "n">>, <<"d", "i", "v", "[", "o", "n", "e", "r", "r", "o", "r", "=", "x", "]">>}

\* extractContent(sessionId, {selector}) is called (format 'text'), its
\* arguments taken from the given sets
ExtractContentOf(c, selectors, sessionIds) ==
  /\ Begin(c)
  /\ \E selector \in selectors, sessionId \in sessionIds :
       GetSession(c, [NoCall EXCEPT !.op = "extractContent", !.selector = selector,
                                    !.sessionId = sessionId])

\* extractContent resumes after `await this.getSession(sessionId)`
ExtractSession(c) ==
  /\ calls[c].pc = "gotSession"
  /\ calls[c].op = "extractContent"
  /\ calls' = [calls EXCEPT ![c] =
       IF calls[c].session = 0 THEN Failed(calls[c], NoSessionError)
       ELSE [calls[c] EXCEPT !.pc = "pageReady"]]
  /\ UNCHANGED <<browser, sessions, generated, browsers, contexts, pages, now>>

\* the waits of waitForPageReady end, each by success or by timeout
PageReady(c) ==
  /\ calls[c].pc = "pageReady"
  /\ LET selectorValidation == validateSelector(calls[c].selector)
     IN calls' = [calls EXCEPT ![c] =
          IF calls[c].selector # <<>> /\ ~selectorValidation.valid
          THEN Failed(calls[c], selectorValidation.error)
          ELSE [calls[c] EXCEPT !.pc = "extract"]]
  /\ UNCHANGED <<browser, sessions, generated, browsers, contexts, pages, now>>

\* the content is read: element.textContent() after the wait for the
\* element, or extractTextContent(page), which catches its errors and then
\* yields the empty string
Extracted(c) ==
  /\ calls[c].pc = "extract"
  /\ LET p == PageOf(calls[c].session)
     IN \/ /\ PageOpen(p)
           /\ calls' = [calls EXCEPT ![c] = [Returned(calls[c]) EXCEPT !.seen = pages[p].url]]
        \/ calls' = [calls EXCEPT ![c] =
             IF calls[c].selector # <<>> THEN Failed(calls[c], EnvError)
             ELSE Returned(calls[c])]
  /\ UNCHANGED <<browser, sessions, generated, browsers, contexts, pages, now>>

UnsupportedAction(action) == <<"U", "n", "s", "u", "p", "p", "o", "r", "t", "e", "d", " ", "a", "c", "t", "i", "o", "n", ":", " ">> \o action

InteractOptions ==
  {[selector |-> <<"d", "i", "v", "[", "o", "n", "e", "r", "r", "o", "r", "=", "x", "]">>, action |-> <<"c", "l", "i", "c", "k">>, value |-> <<>>],
   [selector |-> <<"#", "n", "a", "m", "e">>, action |-> <<"c", "l", "i", "c", "k">>, value |-> <<>>],
   [selector |-> <<"#", "n", "a", "m", "e">>, action |-> <<"t", "y", "p", "e">>, value |-> <<"h", "i">>],
   [selector |-> <<"#", "n", "a", "m", "e">>, action |-> <<"d", "r", "a", "g">>, value |-> <<>>]}

InteractElementUnchecked(c, optionSet, sessionIds) ==
  /\ Begin(c)
  /\ \E options \in optionSet, sessionId \in sessionIds :
       GetSession(c, [NoCall EXCEPT !.op = "interactElement", !.sessionId = sessionId,
                                    !.selector = options.selector,
                                    !.action = options.action, !.value = options.value])

\* interactElement(sessionId, options) is called, its arguments taken from
\* the given sets
InteractElementOf(c, optionSet, sessionIds) ==
  /\ Begin(c)
  /\ \E options \in optionSet, sessionId \in sessionIds :
       LET r == [NoCall EXCEPT !.op = "interactElement", !.sessionId = sessionId,
                               !.selector = options.selector,
                               !.action = options.action, !.value = options.value]
           selectorValidation == validateSelector(options.selector)
       IN IF ~selectorValidation.valid
          THEN /\ calls' = [calls EXCEPT ![c] = Thrown(r, selectorValidation.error)]
               /\ UNCHANGED <<browser, sessions, generated, browsers, contexts, pages, now>>
          ELSE GetSession(c, r)

\* interactElement resumes after `await this.getSession(sessionId)`
InteractSession(c) ==
  /\ calls[c].pc = "gotSession"
  /\ calls[c].op = "interactElement"
  /\ calls' = [calls EXCEPT ![c] =
       IF calls[c].session = 0 THEN Failed(calls[c], NoSessionError)
       ELSE [calls[c] EXCEPT !.pc = "waitFor"]]
  /\ UNCHANGED <<browser, sessions, generated, browsers, contexts, pages, now>>

\* interactElement from `switch (options.action)` to its next await
Act(r) ==
  IF r.action \in {<<"c", "l", "i", "c", "k">>, <<"h", "o", "v", "e", "r">>, <<"f", "o", "c", "u", "s">>, <<"c", "l", "e", "a", "r">>}
  THEN [r EXCEPT !.pc = "act"]
  ELSE IF r.action = <<"t", "y", "p", "e">>
  THEN LET textValidation == validateInputText(r.value)
       IN IF r.value = <<>> THEN [r EXCEPT !.pc = "elementInfo"]
          ELSE IF ~textValidation.valid THEN Failed(r, textValidation.error)
          ELSE [r EXCEPT !.pc = "act"]
  ELSE IF r.action = <<"s", "e", "l", "e", "c", "t">>
  THEN (IF r.value = <<>> THEN [r EXCEPT !.pc = "elementInfo"]
        ELSE [r EXCEPT !.pc = "act"])
  ELSE Failed(r, UnsupportedAction(r.action))

\* element.waitFor answers
WaitedFor(c) ==
  /\ calls[c].pc = "waitFor"
  /\ \/ /\ PageOpen(PageOf(calls[c].session))
        /\ calls' = [calls EXCEPT ![c] = Act(calls[c])]
     \/ calls' = [calls EXCEPT ![c] = Failed(calls[c], EnvError)]
  /\ UNCHANGED <<browser, sessions, generated, browsers, contexts, pages, now>>

\* element.click, fill, selectOption, hover, focus or clear answers
Acted(c) ==
  /\ calls[c].pc = "act"
  /\ \/ /\ PageOpen(PageOf(calls[c].session))
        /\ calls' = [calls EXCEPT ![c] = [calls[c] EXCEPT !.pc = "elementInfo"]]
     \/ calls' = [calls EXCEPT ![c] = Failed(calls[c], EnvError)]
  /\ UNCHANGED <<browser, sessions, generated, browsers, contexts, pages, now>>

\* the reads of elementInfo answer: tagName, textContent and inputValue
ElementRead(c) ==
  /\ calls[c].pc = "elementInfo"
  /\ \/ /\ PageOpen(PageOf(calls[c].session))
        /\ calls' = [calls EXCEPT ![c] = Returned(calls[c])]
     \/ calls' = [calls EXCEPT ![c] = Failed(calls[c], EnvError)]
  /\ UNCHANGED <<browser, sessions, generated, browsers, contexts, pages, now>>

ExecuteScripts == {<<"r", "e", "t", "u", "r", "n", " ", "1">>, <<"e", "v", "a", "l", "(", "x", ")">>}

\* executeScript(sessionId, {script}) is called, its arguments taken from
\* the given sets; call is the record of the call so far
ExecuteScriptFrom(c, call, scripts, sessionIds) ==
  /\ Begin(c)
  /\ \E script \in scripts, sessionId \in sessionIds :
       LET r == [call EXCEPT !.op = "executeScript", !.sessionId = sessionId,
                             !.script = script]
           scriptValidation == validateScript(script)
       IN IF ~scriptValidation.valid
          THEN /\ calls' = [calls EXCEPT ![c] = Thrown(r, scriptValidation.error)]
               /\ UNCHANGED <<browser, sessions, generated, browsers, contexts, pages, now>>
          ELSE GetSession(c, r)

ExecuteScriptOf(c, scripts, sessionIds) == ExecuteScriptFrom(c, NoCall, scripts, sessionIds)

\* executeScript resumes after `await this.getSession(sessionId)`
ExecuteSession(c) ==
  /\ calls[c].pc = "gotSession"
  /\ calls[c].op = "executeScript"
  /\ calls' = [calls EXCEPT ![c] =
       IF calls[c].session = 0 THEN Failed(calls[c], NoSessionError)
       ELSE [calls[c] EXCEPT !.pc = "evaluate"]]
  /\ UNCHANGED <<browser, sessions, generated, browsers, contexts, pages, now>>

\* session.page.evaluate answers
Evaluated(c) ==
  /\ calls[c].pc = "evaluate"
  /\ \/ /\ PageOpen(PageOf(calls[c].session))
        /\ calls' = [calls EXCEPT ![c] = Returned(calls[c])]
     \/ calls' = [calls EXCEPT ![c] = Failed(calls[c], EnvError)]
  /\ UNCHANGED <<browser, sessions, generated, browsers, contexts, pages, now>>

----------------------------------------------------------------------------
(* The five operations on pages, two calls of them at a time *)

OpsSessionIds == {<<"a">>}

StepOps(c) ==
  \/ NavigateOf(c, NavigateUrls, OpsSessionIds)
  \/ ScreenshotOf(c, ScreenshotSelectors, OpsSessionIds)
  \/ ExtractContentOf(c, ExtractSelectors, OpsSessionIds)
  \/ InteractElementOf(c, InteractOptions, OpsSessionIds)
  \/ ExecuteScriptOf(c, ExecuteScripts, OpsSessionIds)
  \/ Launched(c)
  \/ Initialized(c)
  \/ ContextCreated(c)
  \/ PageCreated(c)
  \/ SessionStored(c)
  \/ SessionCreated(c)
  \/ NavigateSession(c)
  \/ BaseVisited(c)
  \/ Delayed(c)
  \/ Visited(c)
  \/ Titled(c)
  \/ ScreenshotSession(c)
  \/ ContentWaited(c)
  \/ Captured(c)
  \/ ExtractSession(c)
  \/ PageReady(c)
  \/ Extracted(c)
  \/ InteractSession(c)
  \/ WaitedFor(c)
  \/ Acted(c)
  \/ ElementRead(c)
  \/ ExecuteSession(c)
  \/ Evaluated(c)

NextOps == (\E c \in DOMAIN calls : StepOps(c)) /\ UNCHANGED validatorVars

SpecOps == Init /\ [][NextOps]_vars

----------------------------------------------------------------------------
(* Validation failures and soft failures of the five operations *)

\* the call c is made in this step
Called(c) == calls[c].pc = "idle" /\ calls'[c].pc # "idle"

\* the validation navigate, executeScript and interactElement make of their
\* argument before anything else
EntryValidation(r) ==
  IF r.op = "navigate" THEN validateUrl(config, r.url)
  ELSE IF r.op = "executeScript" THEN validateScript(r.script)
  ELSE IF r.op = "interactElement" THEN validateSelector(r.selector)
  ELSE Valid

\* C14: navigate with a URL the validator rejects, executeScript with a
\* script it rejects and interactElement with a selector it rejects end at
\* once by throwing the validator's error: no session is looked up or
\* created, no lastActivity is written, the browser handle and the browser's
\* contexts and pages are left as they were.
C14_RejectedBeforeAnyEffect ==
  [][\A c \in DOMAIN calls :
       (Called(c) /\ ~EntryValidation(calls'[c]).valid)
         => /\ calls'[c].pc = "done"
            /\ calls'[c].ret = "throw"
            /\ calls'[c].error = EntryValidation(calls'[c]).error
            /\ calls'[c].id = NoId /\ calls'[c].session = 0
            /\ UNCHANGED <<browser, sessions, generated, browsers, contexts,
                           pages, now>>]_vars

\* an interactElement whose selector is rejected, made once the session 'a'
\* exists
C14_Witness ==
  /\ Has(<<"a">>)
  /\ calls[1].ret = "success"
  /\ calls[2].op = "interactElement" /\ calls[2].ret = "throw"
  /\ ~validateSelector(calls[2].selector).valid
  /\ calls[2].error = validateSelector(calls[2].selector).error

----------------------------------------------------------------------------
(* interactElement with action 'type': the typed value *)

\* a value one character over the limit of validateInputText
LongValue == Pad(MaxInputTextLength + 1)

TypeOptions ==
  {[selector |-> <<"#", "n", "a", "m", "e">>, action |-> <<"t", "y", "p", "e">>, value |-> <<>>],
   [selector |-> <<"#", "n", "a", "m", "e">>, action |-> <<"t", "y", "p", "e">>, value |-> <<"h", "i">>],
   [selector |-> <<"#", "n", "a", "m", "e">>, action |-> <<"t", "y", "p", "e">>, value |-> LongValue]}

StepInteract(c) ==
  \/ InteractElementOf(c, TypeOptions, SessionIdArgs)
  \/ Launched(c)
  \/ Initialized(c)
  \/ ContextCreated(c)
  \/ PageCreated(c)
  \/ SessionStored(c)
  \/ SessionCreated(c)
  \/ InteractSession(c)
  \/ WaitedFor(c)
  \/ Acted(c)
  \/ ElementRead(c)

NextInteract == (\E c \in DOMAIN calls : StepInteract(c)) /\ UNCHANGED validatorVars

SpecInteract == Init /\ [][NextInteract]_vars

\* C15: an interactElement call with action 'type' whose value is longer
\* than 10000 characters is rejected before any request to the browser: it
\* has ended with the validator's error, no session was resolved or created
\* for it, and no wait for the element or fill was issued.
C15_LongValueRejectedFirst ==
  \A c \in DOMAIN calls :
    (calls[c].op = "interactElement" /\ calls[c].action = <<"t", "y", "p", "e">>
       /\ ~validateInputText(calls[c].value).valid)
      => /\ calls[c].pc = "done"
         /\ calls[c].error = validateInputText(calls[c].value).error
         /\ calls[c].id = NoId /\ calls[c].session = 0

----------------------------------------------------------------------------
(* How the five operations report a failure *)

\* the error of the call r is one a validation of its arguments produced
ValidationError(r) ==
  \/ /\ r.op = "navigate"
     /\ ~validateUrl(config, r.url).valid
     /\ r.error = validateUrl(config, r.url).error
  \/ /\ r.op \in {"screenshot", "extractContent", "interactElement"}
     /\ ~validateSelector(r.selector).valid
     /\ r.error = validateSelector(r.selector).error
  \/ /\ r.op = "executeScript"
     /\ ~validateScript(r.script).valid
     /\ r.error = validateScript(r.script).error
  \/ /\ r.op = "interactElement"
     /\ ~validateInputText(r.value).valid
     /\ r.error = validateInputText(r.value).error
  \/ /\ r.op = "interactElement"
     /\ r.error = UnsupportedAction(r.action)

\* C16: in the five operations a validation failure (URL, selector, script,
\* typed text, unsupported action) is thrown and never returned as a
\* {success: false} result; that result is kept for failures of the
\* environment.
C16_ValidationThrown ==
  \A c \in DOMAIN calls :
    (calls[c].pc = "done" /\ ValidationError(calls[c])) => calls[c].ret = "throw"

\* the session the call r runs on is in the map, under the identifier r gave
Tracked(r, m) ==
  /\ r.session # 0
  /\ \E i \in 1..Len(m) : m[i].id = r.sessionId /\ m[i].context = r.session

\* the call c ends in this step with a {success: false} result
SoftFailure(c) ==
  calls[c].pc # "done" /\ calls'[c].pc = "done" /\ calls'[c].ret = "failure"

\* a call ended by a {success: false} result on the session r2 asks for
FailedOn(r2) ==
  \E d \in DOMAIN calls :
    /\ calls[d].pc = "done" /\ calls[d].ret = "failure"
    /\ calls[d].sessionId = r2.sessionId
    /\ Tracked(calls[d], sessions)
    /\ r2.session # calls[d].session

\* C17: when an operation on a tracked session ends by a soft failure, the
\* result carries a non-empty error, the session stays in the map with the
\* same context and page, and a later operation with that sessionId (one
\* whose arguments pass the validation at entry) runs on that same session.
C17_SoftFailureKeepsSession ==
  [][\A c \in DOMAIN calls :
       /\ (SoftFailure(c) /\ Tracked(calls[c], sessions))
            => /\ calls'[c].error # <<>>
               /\ Tracked(calls'[c], sessions')
               /\ UNCHANGED <<sessions, contexts, pages, browser>>
       /\ (Called(c) /\ EntryValidation(calls'[c]).valid) => ~FailedOn(calls'[c])]_vars

\* a screenshot of session 'a' failed on the selector, and the screenshot
\* made after it with the same sessionId succeeded on the same session
C17_Witness ==
  /\ calls[1].op = "screenshot" /\ calls[1].ret = "failure"
  /\ calls[1].sessionId = <<"a">> /\ Tracked(calls[1], sessions)
  /\ calls[2].op = "screenshot" /\ calls[2].ret = "success"
  /\ calls[2].sessionId = <<"a">> /\ calls[2].session = calls[1].session
  /\ calls[2].id = NoId

----------------------------------------------------------------------------
(* The tools: NavigationTool, ScreenshotTool, ContentExtractionTool,      *)
(* ElementInteractionTool and ScriptExecutionTool.  Each one's            *)
(* execute(args) awaits the BrowserManager call inside a try block.       *)

Undefined == [defined |-> FALSE, message |-> <<>>]
String(message) == [defined |-> TRUE, message |-> message]

\* what the BrowserManager call r hands back when it returns
ManagerResult(r) ==
  [success |-> r.ret = "success",
   error |-> IF r.ret = "failure" THEN String(r.error) ELSE Undefined]

executeUncaught(r) ==
  IF r.ret = "throw"
  THEN [thrown |-> TRUE, success |-> FALSE, error |-> Undefined]
  ELSE [thrown |-> FALSE, success |-> ManagerResult(r).success,
        error |-> ManagerResult(r).error]

\* execute(args) of a tool whose BrowserManager call ended as r did: the
\* result of the call is returned as it is, an exception is caught and
\* turned into {success: false, error: error.message}
execute(r) ==
  IF r.ret = "throw"
  THEN [thrown |-> FALSE, success |-> FALSE, error |-> String(r.error)]
  ELSE [thrown |-> FALSE, success |-> ManagerResult(r).success,
        error |-> ManagerResult(r).error]

\* C18: execute(args) of each of the five tools never throws: whatever the
\* outcome of the BrowserManager call (success, soft failure, thrown
\* validation error, thrown session-creation or initialization error) it
\* returns an object with a boolean success, and with a string error, the
\* message of the failure, whenever success is false.
C18_ToolsNeverThrow ==
  \A c \in DOMAIN calls :
    calls[c].pc = "done"
      => LET t == execute(calls[c])
         IN /\ ~t.thrown
            /\ t.success \in BOOLEAN
            /\ t.success <=> calls[c].ret = "success"
            /\ ~t.success => (t.error.defined /\ t.error.message = calls[c].error)

\* one tool call whose BrowserManager call threw a session-creation or
\* initialization error, and one whose call threw a validation error
C18_Witness ==
  /\ calls[1].pc = "done" /\ calls[1].ret = "throw"
  /\ EntryValidation(calls[1]).valid
  /\ calls[2].pc = "done" /\ calls[2].ret = "throw"
  /\ ~EntryValidation(calls[2]).valid
  /\ ~execute(calls[1]).success /\ ~execute(calls[2]).success

----------------------------------------------------------------------------
(* Failure of chromium.launch *)

\* the launch the call c waits for fails in this step
LaunchFails(c) ==
  calls[c].pc = "launch" /\ calls'[c].pc = "done" /\ calls'[c].ret # "success"

\* C19: when chromium.launch fails, initialize() throws an error whose
\* message starts with 'Browser initialization failed' and not with
\* 'Session creation failed'; when an operation's first session creation
\* made the launch, the operation throws that same error (it is not wrapped
\* again and not returned as a soft failure), and the failure leaves the
\* browser handle (null if it was null) and the session map as they were.
C19_LaunchFailurePropagates ==
  [][\A c \in DOMAIN calls :
       LaunchFails(c)
         => /\ calls'[c].ret = "throw"
            /\ calls'[c].error = BrowserInitializationFailed(EnvError)
            /\ MatchAt(calls'[c].error, 1, <<"B", "r", "o", "w", "s", "e", "r", " ", "i", "n", "i", "t", "i", "a", "l", "i", "z", "a", "t", "i", "o", "n", " ", "f", "a", "i", "l", "e", "d">>)
            /\ ~MatchAt(calls'[c].error, 1, <<"S", "e", "s", "s", "i", "o", "n", " ", "c", "r", "e", "a", "t", "i", "o", "n", " ", "f", "a", "i", "l", "e", "d">>)
            /\ UNCHANGED <<browser, sessions, browsers, contexts, pages>>]_vars

\* a navigate whose session creation made the launch that failed, and an
\* initialize() that failed the same way
C19_Witness ==
  /\ calls[1].op = "navigate" /\ calls[1].ret = "throw"
  /\ calls[1].error = BrowserInitializationFailed(EnvError)
  /\ calls[2].op = "initialize" /\ calls[2].ret = "throw"
  /\ browser = 0 /\ sessions = <<>>

----------------------------------------------------------------------------
(* Time: ToolRegistry.executeTool reads the clock before and after the    *)
(* tool's execute.  `now` is the clock in milliseconds; the time limit is *)
(* the configured maxExecutionTime (MAX_EXECUTION_TIME).                   *)

MaxTimeLimit == 2
MaxTime == 4

TimedScripts == {<<"r", "e", "t", "u", "r", "n", " ", "1">>}

InitTimed ==
  /\ config \in {[defaultSecurityConfig EXCEPT !.maxExecutionTime = Number(t)] :
                   t \in 1..MaxTimeLimit}
  /\ arg = <<>>
  /\ result = Valid
  /\ returned = FALSE
  /\ ManagerIdle

\* executeTool('execute_script', args) from `const startTime = Date.now()`
\* to the first await of executeScript
ExecuteTool(c) ==
  ExecuteScriptFrom(c, [NoCall EXCEPT !.startTime = now], TimedScripts, OpsSessionIds)

\* executeTool resumes after `await tool.execute(args)`: the duration is
\* computed and logged, the result is returned
ToolExecuted(c) ==
  /\ calls[c].pc = "done"
  /\ calls' = [calls EXCEPT ![c] =
       [calls[c] EXCEPT !.pc = "returned", !.duration = now - calls[c].startTime]]
  /\ UNCHANGED <<browser, sessions, generated, browsers, contexts, pages, now>>

\* a millisecond passes
Elapse ==
  /\ now < MaxTime
  /\ now' = now + 1
  /\ UNCHANGED <<browser, sessions, generated, calls, browsers, contexts, pages>>

StepTimed(c) ==
  \/ ExecuteTool(c)
  \/ Launched(c)
  \/ Initialized(c)
  \/ ContextCreated(c)
  \/ PageCreated(c)
  \/ SessionStored(c)
  \/ SessionCreated(c)
  \/ ExecuteSession(c)
  \/ Evaluated(c)
  \/ ToolExecuted(c)

NextTimed ==
  /\ \/ \E c \in DOMAIN calls : StepTimed(c)
     \/ Elapse
  /\ UNCHANGED validatorVars

SpecTimed == InitTimed /\ [][NextTimed]_vars

\* C20: the configured time limit is enforced: a tool call that lasted
\* longer than maxExecutionTime (a duration checkLimits rejects) has not
\* returned success.
C20_TimeLimitEnforced ==
  \A c \in DOMAIN calls :
    (/\ calls[c].pc = "returned"
     /\ ~checkLimits(config, <<"e", "x", "e", "c", "u", "t", "e", "_", "s", "c", "r", "i", "p", "t">>, Number(calls[c].duration),
                     NoNumber).valid)
      => calls[c].ret # "success"

----------------------------------------------------------------------------
(* Calls that overlap *)

\* C26: concurrent operations that name the same session identifier all
\* obtain the same session: one browsing context is created for the
\* identifier, whatever the interleaving.
C26_OneSessionPerIdentifier ==
  \A c, d \in DOMAIN calls :
    (/\ calls[c].sessionId # NoId
     /\ calls[c].sessionId = calls[d].sessionId
     /\ calls[c].session # 0 /\ calls[d].session # 0)
      => calls[c].session = calls[d].session

\* C27: the shared browser process is launched at most once between
\* shutdowns: every browser process that was launched is the one the
\* browser handle holds, or has been closed.
C27_SingleBrowser ==
  \A b \in 1..Len(browsers) : browsers[b] # "closed" => b = browser

\* C28: once cleanup() and the session creations it overlapped with have
\* finished, the session map holds no session whose context belongs to a
\* closed browser process.
C28_NoSessionOfClosedBrowser ==
  (\A c \in DOMAIN calls : calls[c].pc \in {"idle", "done"})
    => \A i \in 1..Len(sessions) :
         browsers[contexts[sessions[i].context].browser] # "closed"

----------------------------------------------------------------------------
(* navigate alone, on more URLs and configurations *)

GotoUrls ==
  {s \o u \o h \o p \o q :
     s \in {<<"h", "t", "t", "p", ":", "/", "/">>, <<"H", "T", "T", "P", "S", ":", "/", "/">>, <<"f", "t", "p", ":", "/", "/">>},
     u \in {<<>>, <<"l", "o", "c", "a", "l", "h", "o", "s", "t", "@">>},
     h \in {<<"g", "o", "o", "d", ".", "c", "o", "m">>, <<"b", "a", "d", ".", "g", "o", "o", "d">>, <<"l", "o", "c", "a", "l", "h", "o", "s", "t">>},
     p \in {<<>>, <<":", "9", "9", "9", "9">>},
     q \in {<<"/", "p", "r", "o", "d", "u", "c", "t", "s", "/", "s", "h", "o", "e">>, <<"/", "p", "r", "o", "d", "u", "c", "t", "s", "/">>, <<"/", "x">>}}

GotoConfigs ==
  {defaultSecurityConfig,
   [defaultSecurityConfig EXCEPT !.allowedDomains = List(<<<<"g", "o", "o", "d">>, <<"c", "o", "m">>>>)],
   [defaultSecurityConfig EXCEPT !.blockedDomains = List(<<<<"b", "a", "d">>>>),
                                 !.allowedDomains = List(<<<<"g", "o", "o", "d">>>>)]}

InitGoto ==
  /\ config \in GotoConfigs
  /\ arg = <<>>
  /\ result = Valid
  /\ returned = FALSE
  /\ ManagerIdle

StepGoto(c) ==
  \/ c = 1 /\ NavigateOf(c, GotoUrls, OpsSessionIds)
  \/ Launched(c)
  \/ Initialized(c)
  \/ ContextCreated(c)
  \/ PageCreated(c)
  \/ SessionStored(c)
  \/ SessionCreated(c)
  \/ NavigateSession(c)
  \/ BaseVisited(c)
  \/ Delayed(c)
  \/ Visited(c)
  \/ Titled(c)

NextGoto == (\E c \in DOMAIN calls : StepGoto(c)) /\ UNCHANGED validatorVars

SpecGoto == InitGoto /\ [][NextGoto]_vars

\* the URL the call r has passed to page.goto
GotoUrl(r) == IF r.pc = "gotoBase" THEN Origin(r.url) ELSE r.url

\* C29: every URL navigate passes to page.goto, the site origin visited
\* before a '/products/' URL included, has scheme http or https and a
\* hostname that passes the block-list and allow-list checks of validateUrl
\* under the configuration.
C29_GotoAdmitted ==
  \A c \in DOMAIN calls :
    calls[c].pc \in {"gotoBase", "goto"}
      => LET urlObj == ParseUrl(GotoUrl(calls[c]))
         IN /\ urlObj.ok
            /\ urlObj.protocol \in {<<"h", "t", "t", "p", ":">>, <<"h", "t", "t", "p", "s", ":">>}
            /\ ~IsBlocked(config, urlObj.hostname)
            /\ ~IsNotAllowed(config, urlObj.hostname)
            /\ validateUrl(config, GotoUrl(calls[c])).valid

\* the origin of a '/products/' URL with user information and a port is being
\* visited, under a configuration with an allow-list
C29_Witness ==
  /\ calls[1].pc = "gotoBase"
  /\ calls[1].url = <<"H", "T", "T", "P", "S", ":", "/", "/", "l", "o", "c", "a", "l", "h", "o", "s", "t", "@", "g", "o", "o", "d", ".", "c", "o", "m", ":", "9", "9", "9", "9", "/", "p", "r", "o", "d", "u", "c", "t", "s", "/", "s", "h", "o", "e">>
  /\ GotoUrl(calls[1]) = <<"h", "t", "t", "p", "s", ":", "/", "/", "g", "o", "o", "d", ".", "c", "o", "m", ":", "9", "9", "9", "9">>
  /\ config.allowedDomains = List(<<<<"g", "o", "o", "d">>>>)

----------------------------------------------------------------------------
(* The timeout of a navigation: the navigate tool's timeout argument, the *)
(* browser configuration's timeout (BROWSER_TIMEOUT) and the default.     *)

DefaultTimeout == 30000

MaxTimeout == 6

\* an absent number, or a number of milliseconds
Timeouts == {NoNumber} \cup {Number(n) : n \in 0..MaxTimeout}

\* a || b
Or(a, b) == IF Truthy(a) THEN a ELSE b

\* loadConfig: parseInt(process.env.BROWSER_TIMEOUT || '30000')
loadConfigTimeout(env) == IF env.defined THEN env ELSE Number(DefaultTimeout)

\* NavigationTool.execute: timeout: args.timeout || 30000
NavigationToolTimeout(argsTimeout) == Or(argsTimeout, Number(DefaultTimeout))

\* navigate: timeout: options.timeout || this.config.timeout || 30000
navigateTimeout(optionsTimeout, configTimeout) ==
  Or(Or(optionsTimeout, configTimeout), Number(DefaultTimeout))

InitTimeout ==
  /\ config = defaultSecurityConfig
  /\ arg \in [timeout : Timeouts, BROWSER_TIMEOUT : Timeouts]
  /\ result = NoNumber
  /\ returned = FALSE
  /\ ManagerIdle

\* the navigate tool is called; result is the timeout given to page.goto
NavigateTimeout ==
  /\ ~returned
  /\ result' = navigateTimeout(NavigationToolTimeout(arg.timeout),
                               loadConfigTimeout(arg.BROWSER_TIMEOUT))
  /\ returned' = TRUE
  /\ UNCHANGED <<config, arg>>
  /\ UNCHANGED managerVars

NextTimeout == NavigateTimeout

SpecTimeout == InitTimeout /\ [][NextTimeout]_vars

\* C21: when the navigate tool is called without a timeout argument, the
\* timeout of the page navigation is the configured browser timeout
\* (BROWSER_TIMEOUT; 30000 ms only when it is not configured); a timeout
\* argument, when given, is the timeout applied.
C21_ConfiguredTimeout ==
  returned =>
    result = IF arg.timeout.defined THEN arg.timeout
             ELSE IF arg.BROWSER_TIMEOUT.defined THEN arg.BROWSER_TIMEOUT
             ELSE Number(DefaultTimeout)

----------------------------------------------------------------------------
(* extractContent without a selector: waitForPageReady, then the          *)
(* strategies of extractTextContent or extractHtmlContent one after the   *)
(* other, then debugPageState when the content is empty.  The page's      *)
(* answer to each strategy is chosen by the environment.  arg holds the   *)
(* options of the call, result the call's progress and outcome.           *)

HtmlThreshold == 100

TextStrategies == <<"page.textContent('body')", "document.body.innerText",
                    "document.body.textContent">>
HtmlStrategies == <<"page.content()", "document.documentElement.outerHTML",
                    "head.innerHTML and body.innerHTML">>

Throws == [threw |-> TRUE, value |-> <<>>]
Answers(values) == {Throws} \cup {[threw |-> FALSE, value |-> v] : v \in values}

LongHtml == <<"<", "s", "c", "r", "i", "p", "t", ">", "a", "<", "/", "s", "c", "r", "i", "p", "t", ">", "<", "s", "t", "y", "l", "e", ">", "b", "<", "/", "s", "t", "y", "l", "e", ">">> \o Pad(HtmlThreshold + 1)

TextAnswers == Answers({<<>>, <<" ">>, <<" ", "h", "i", " ">>})
HtmlAnswers == Answers({<<>>, Pad(HtmlThreshold), LongHtml})

ExtractOptions ==
  [format : {"text", "html", "markdown", "undefined"},
   removeScripts : BOOLEAN, removeStyles : BOOLEAN]

\* position k of html lies in a match of /<[^>]*>/g: a "<" at or before
\* it with no ">" in between, and a ">" at or after it
InTag(html, k) ==
  /\ \E s \in 1..k : html[s] = "<" /\ \A j \in s..(k - 1) : html[j] # ">"
  /\ \E e \in k..Len(html) : html[e] = ">"

\* html.replace(/<[^>]*>/g, '')
RemoveTags(html) ==
  LET kept == {k \in 1..Len(html) : ~InTag(html, k)}
      At(i) == CHOOSE k \in kept : Cardinality({j \in kept : j < k}) = i - 1
  IN [i \in 1..Cardinality(kept) |-> html[At(i)]]

\* htmlToMarkdown on HTML that holds none of the elements it rewrites
\* (h1 to h3, p, a, strong, b, em, i, code) and no line break: the tags are
\* removed and the result is trimmed
htmlToMarkdown(html) == trim(RemoveTags(html))

InitExtract ==
  /\ config = defaultSecurityConfig
  /\ arg \in ExtractOptions
  /\ result = [pc |-> "pageReady", tried |-> <<>>, content |-> <<>>, returns |-> <<>>,
               debugged |-> "no", success |-> FALSE, length |-> 0]
  /\ returned = FALSE
  /\ ManagerIdle

\* the waits of waitForPageReady end, each by success or by timeout
WaitedForPageReady ==
  /\ result.pc = "pageReady"
  /\ result' = [result EXCEPT !.pc =
                  IF arg.format \in {"html", "markdown"} THEN "html" ELSE "text"]
  /\ UNCHANGED <<config, arg, returned>>

NonEmpty(content) == Len(content) > 0

\* content.trim().length > 0
NonBlank(content) == Len(trim(content)) > 0

\* the next strategy of extractTextContent answers
TextStrategy ==
  /\ result.pc = "text"
  /\ \E answer \in TextAnswers :
       LET n == Len(result.tried) + 1
           tried == Append(result.tried, [strategy |-> TextStrategies[n],
                                          threw |-> answer.threw,
                                          value |-> answer.value])
       IN result' =
            IF ~answer.threw /\ NonBlank(answer.value)
            THEN [result EXCEPT !.tried = tried, !.content = answer.value,
                                !.returns = answer.value, !.pc = "extracted"]
            ELSE IF n = Len(TextStrategies)
            THEN [result EXCEPT !.tried = tried, !.returns = <<>>, !.pc = "extracted"]
            ELSE [result EXCEPT !.tried = tried,
                                !.content = IF answer.threw THEN @ ELSE answer.value]
  /\ UNCHANGED <<config, arg, returned>>

SaneFrom(content) == Len(content) >= HtmlThreshold

\* content.length > 100
Sane(content) == Len(content) > HtmlThreshold

\* the next strategy of extractHtmlContent answers
HtmlStrategy ==
  /\ result.pc = "html"
  /\ \E answer \in HtmlAnswers :
       LET n == Len(result.tried) + 1
           tried == Append(result.tried, [strategy |-> HtmlStrategies[n],
                                          threw |-> answer.threw,
                                          value |-> answer.value])
           content == IF answer.threw THEN result.content ELSE answer.value
       IN result' =
            IF ~answer.threw /\ Sane(answer.value)
            THEN [result EXCEPT !.tried = tried, !.content = content,
                                !.returns = content, !.pc = "extracted"]
            ELSE IF n = Len(HtmlStrategies)
            THEN [result EXCEPT !.tried = tried, !.content = content,
                                !.returns = content, !.pc = "extracted"]
            ELSE [result EXCEPT !.tried = tried, !.content = content]
  /\ UNCHANGED <<config, arg, returned>>

\* extractContent from the return of the extraction to `if (content.length
\* === 0)`
ContentExtracted ==
  /\ result.pc = "extracted"
  /\ LET content == IF arg.format = "markdown" THEN htmlToMarkdown(result.returns)
                    ELSE result.returns
     IN result' = [result EXCEPT !.content = content,
                                 !.pc = IF Len(content) = 0 THEN "debug" ELSE "return"]
  /\ UNCHANGED <<config, arg, returned>>

DebuggedUncaught ==
  /\ result.pc = "debug"
  /\ \/ /\ result' = [result EXCEPT !.debugged = "yes", !.pc = "return"]
        /\ UNCHANGED returned
     \/ /\ result' = [result EXCEPT !.debugged = "threw", !.pc = "done"]
        /\ returned' = TRUE
  /\ UNCHANGED <<config, arg>>

\* debugPageState ends: its requests answered, or one of them threw and the
\* error was caught and logged
Debugged ==
  /\ result.pc = "debug"
  /\ \E debugged \in {"yes", "threw"} :
       result' = [result EXCEPT !.debugged = debugged, !.pc = "return"]
  /\ UNCHANGED <<config, arg, returned>>

\* extractContent returns {success: true, content, metadata}
ExtractReturned ==
  /\ result.pc = "return"
  /\ result' = [result EXCEPT !.pc = "done", !.success = TRUE,
                              !.length = Len(result.content)]
  /\ returned' = TRUE
  /\ UNCHANGED <<config, arg>>

NextExtract ==
  /\ \/ WaitedForPageReady
     \/ TextStrategy
     \/ HtmlStrategy
     \/ ContentExtracted
     \/ Debugged
     \/ ExtractReturned
  /\ UNCHANGED managerVars

SpecExtract == InitExtract /\ [][NextExtract]_vars

TextFormat == arg.format \in {"text", "undefined"}
ExtractionOver == result.pc \in {"extracted", "debug", "return", "done"}

\* the strategies tried so far are the first ones of the list, in its order
TriedInOrder(strategies) ==
  /\ Len(result.tried) <= Len(strategies)
  /\ \A i \in 1..Len(result.tried) : result.tried[i].strategy = strategies[i]

\* the value of the last strategy tried that did not throw, '' if each threw
LastObtained ==
  LET got == {i \in 1..Len(result.tried) : ~result.tried[i].threw}
  IN IF got = {} THEN <<>>
     ELSE result.tried[CHOOSE i \in got : \A j \in got : j <= i].value

\* C23 as stated: the whole-page text extraction tries its three strategies
\* in order and returns the first result that is not the empty string; no
\* strategy is invoked after a strategy that gave a non-empty result.
C23_FirstNonEmpty ==
  TextFormat =>
    /\ TriedInOrder(TextStrategies)
    /\ \A i \in 1..Len(result.tried) :
         (~result.tried[i].threw /\ result.tried[i].value # <<>>)
           => /\ i = Len(result.tried)
              /\ ExtractionOver
              /\ result.returns = result.tried[i].value

\* C23, amended: the whole-page text extraction tries its three strategies
\* in order and returns, untrimmed, the first result that is not blank
\* (not empty once surrounding whitespace is trimmed) without invoking a
\* later strategy; a strategy that throws or gives a blank result counts
\* as nothing, and when no strategy gives a result the empty string is
\* returned.
C23_FirstNonBlank ==
  TextFormat =>
    /\ TriedInOrder(TextStrategies)
    /\ \A i \in 1..Len(result.tried) :
         (~result.tried[i].threw /\ trim(result.tried[i].value) # <<>>)
           => /\ i = Len(result.tried)
              /\ ExtractionOver
              /\ result.returns = result.tried[i].value
    /\ (\A i \in 1..Len(result.tried) :
          result.tried[i].threw \/ trim(result.tried[i].value) = <<>>)
         => IF ExtractionOver
            THEN Len(result.tried) = Len(TextStrategies) /\ result.returns = <<>>
            ELSE Len(result.tried) < Len(TextStrategies)

C23_Witness ==
  /\ arg.format = "text"
  /\ result.pc = "done"
  /\ Len(result.tried) = 3
  /\ result.tried[1].threw
  /\ result.tried[2].value = <<" ">>
  /\ result.tried[3].value = <<" ", "h", "i", " ">>
  /\ result.content = <<" ", "h", "i", " ">>

\* C24: the HTML extraction tries the serialized document, the root's outer
\* markup and the document rebuilt from head and body, in that order; it
\* returns the first result longer than 100 characters without invoking a
\* later strategy, and otherwise the last result obtained without an
\* exception, the empty string if every strategy threw.
C24_FirstSaneHtml ==
  ~TextFormat =>
    /\ TriedInOrder(HtmlStrategies)
    /\ \A i \in 1..Len(result.tried) :
         (~result.tried[i].threw /\ Len(result.tried[i].value) > 100)
           => /\ i = Len(result.tried)
              /\ ExtractionOver
              /\ result.returns = result.tried[i].value
    /\ (\A i \in 1..Len(result.tried) :
          result.tried[i].threw \/ Len(result.tried[i].value) <= 100)
         => IF ExtractionOver
            THEN Len(result.tried) = Len(HtmlStrategies) /\ result.returns = LastObtained
            ELSE Len(result.tried) < Len(HtmlStrategies)

C24_Witness ==
  /\ arg.format = "html"
  /\ result.pc = "done"
  /\ Len(result.tried) = 3
  /\ result.tried[1].value = <<>> /\ ~result.tried[1].threw
  /\ result.tried[2].value = Pad(100)
  /\ result.tried[3].threw
  /\ result.content = Pad(100)
  /\ result.success

\* C25: when every strategy of the requested format threw or gave the empty
\* string, extractContent returns success true with empty content and
\* metadata length 0, whether the diagnostic pass went through or threw.
C25_EmptyIsSuccess ==
  (/\ returned
   /\ \A i \in 1..Len(result.tried) :
        result.tried[i].threw \/ result.tried[i].value = <<>>)
    => /\ result.success
       /\ result.content = <<>>
       /\ result.length = 0

C25_Witness ==
  /\ returned
  /\ arg.format = "markdown"
  /\ Len(result.tried) = 3
  /\ \A i \in 1..3 : result.tried[i].threw
  /\ result.debugged = "threw"
  /\ result.success
  /\ result.length = 0

\* C22: with removeScripts true the HTML content returned holds no script
\* element, and with removeStyles true no style element.
C22_FlagsHonoured ==
  (returned /\ result.success /\ arg.format = "html")
    => /\ arg.removeScripts => ~includes(result.content, <<"<", "s", "c", "r", "i", "p", "t">>)
       /\ arg.removeStyles => ~includes(result.content, <<"<", "s", "t", "y", "l", "e">>)

----------------------------------------------------------------------------
(* Shutdown of a started server: start() has launched the browser and    *)
(* registered shutdown() for SIGINT and SIGTERM.  A signal calls         *)
(* shutdown(), which calls cleanup() and, once cleanup has returned or   *)
(* thrown, process.exit(0).  One screenshot call may be in progress      *)
(* meanwhile.  result holds the state of the process.                    *)

Running == [exited |-> FALSE, code |-> 0]

InitShutdown ==
  /\ config = defaultSecurityConfig
  /\ arg = <<>>
  /\ result = Running
  /\ returned = FALSE
  /\ browser = 1
  /\ sessions = <<>>
  /\ generated = 0
  /\ calls = [c \in 1..MaxStoreCalls |-> NoCall]
  /\ browsers = <<"open">>
  /\ contexts = <<>>
  /\ pages = <<>>
  /\ now = 0

\* SIGINT or SIGTERM arrives: shutdown() to the first await of cleanup()
Signal(c) ==
  /\ Cleanup(c)
  /\ UNCHANGED validatorVars

ExitedUncaught(c) ==
  /\ calls[c].op = "cleanup"
  /\ calls[c].pc = "done"
  /\ result' = [exited |-> TRUE, code |-> IF calls[c].ret = "throw" THEN 1 ELSE 0]
  /\ UNCHANGED <<config, arg, returned>>
  /\ UNCHANGED managerVars

\* shutdown() after cleanup() returned or threw: process.exit(0)
Exited(c) ==
  /\ calls[c].op = "cleanup"
  /\ calls[c].pc = "done"
  /\ result' = [exited |-> TRUE, code |-> 0]
  /\ UNCHANGED <<config, arg, returned>>
  /\ UNCHANGED managerVars

\* a close call of cleanup answers
CloseAnswered(c) ==
  /\ ContextClosed(c) \/ BrowserClosed(c)
  /\ UNCHANGED validatorVars

StepShutdown(c) ==
  \/ Signal(c)
  \/ CloseAnswered(c)
  \/ Exited(c)
  \/ /\ \/ c = 1 /\ ScreenshotOf(c, {<<>>}, {NoId})
        \/ ContextCreated(c)
        \/ PageCreated(c)
        \/ SessionStored(c)
        \/ SessionCreated(c)
        \/ ScreenshotSession(c)
        \/ Captured(c)
     /\ UNCHANGED validatorVars

\* nothing runs after process.exit
NextShutdown == ~result.exited /\ \E c \in DOMAIN calls : StepShutdown(c)

\* every close call eventually returns or throws, and a shutdown whose
\* await of cleanup() is over goes on to process.exit
SpecShutdown ==
  /\ InitShutdown
  /\ [][NextShutdown]_vars
  /\ \A c \in 1..MaxStoreCalls :
       /\ WF_vars(~result.exited /\ CloseAnswered(c))
       /\ WF_vars(~result.exited /\ Exited(c))

Signalled == \E c \in DOMAIN calls : calls[c].op = "cleanup"

\* C30: once a signal has called shutdown(), the process eventually exits
\* with code 0, whether cleanup returns or throws and also when a second
\* signal arrives during the first shutdown.
C30_ExitsWithZero == Signalled ~> (result.exited /\ result.code = 0)

C30_Witness ==
  /\ result.exited
  /\ result.code = 0
  /\ \E c, e \in DOMAIN calls :
       /\ calls[c].op = "cleanup" /\ calls[c].ret = "throw"
       /\ calls[e].op = "cleanup" /\ calls[e].pc = "browserClose"
       /\ Len(contexts) > 0
====
